---- MODULE Spec2Model ----
(***************************************************************************)
(* Receipt Ranger: the state-tracking and deduplication layer of main.py.  *)
(*                                                                         *)
(* Python dicts are modelled as insertion-ordered sequences of [k, v]      *)
(* pairs with unique keys; the state file is modelled as the sequence of   *)
(* JSON tokens json.dump writes, so that a partially written file is a     *)
(* proper prefix of the full text and loading is a real parse.             *)
(***************************************************************************)
EXTENDS Integers, Sequences, FiniteSets, TLC

VARIABLES
    disk,        \* STATE_FILE: [exists, text], text a sequence of JSON tokens
    dir,         \* RECEIPTS_DIR: filename -> [kind, hash]
    pc,          \* position of the running process in main()
    args,        \* parsed command-line arguments of the current run
    state,       \* the in-memory state dict of the current run
    to_process,  \* the plan returned by get_receipts_to_process
    idx,         \* position of the extraction loop in to_process
    results,     \* receipts extracted so far in this run
    pending,     \* text that save_state is writing to the open file
    spreadsheet, \* the Google spreadsheet: [exists, sheets], sheets title -> rows
    worksheets,  \* the worksheets dict of a running upload: title -> existing keys
    duplicates_found,  \* st.session_state.duplicates_found of the web app
    new_receipts,      \* the receipts the web app offers for upload
    hist         \* history variables (observations only, never read by the code)

vars == <<disk, dir, pc, args, state, to_process, idx, results, pending,
          spreadsheet, worksheets, duplicates_found, new_receipts, hist>>

\* the variables of the spreadsheet side, which main()'s processing never touches
sheetvars == <<spreadsheet, worksheets, duplicates_found, new_receipts>>

(***************************************************************************)
(* Bounds of the model.                                                    *)
(***************************************************************************)
MaxLen == 3

(***************************************************************************)
(* Python values.  None and a missing dict key are sentinels that no real   *)
(* string of the model equals.                                             *)
(***************************************************************************)
None == "<None>"
Absent == "<absent>"

\* bool(v) for the values a receipt field holds
Truthy(v) == v \notin {None, Absent, ""}

\* str(v) for a string or None
Str(v) == IF v = None THEN "None" ELSE v

\* dict.get(key) / dict.get(key, default) on a receipt
Get(receipt, key) == IF receipt[key] = Absent THEN None ELSE receipt[key]
GetOr(receipt, key, default) == IF receipt[key] = Absent THEN default ELSE receipt[key]

\* str(float) for an amount held as a whole number of cents
AmountStr(c) ==
    LET w == c \div 100
        f == c % 100
    IN  ToString(w) \o "." \o
        (IF f % 10 = 0 THEN ToString(f \div 10)
         ELSE IF f < 10 THEN "0" \o ToString(f)
         ELSE ToString(f))

RECURSIVE Join(_, _)
\* sep.join(str(c) for c in seq)
Join(seq, sep) ==
    IF seq = <<>> THEN ""
    ELSE IF Len(seq) = 1 THEN Str(seq[1])
    ELSE Str(seq[1]) \o sep \o Join(Tail(seq), sep)

(***************************************************************************)
(* Python dict: insertion-ordered, unique keys.                            *)
(***************************************************************************)
DictHas(d, k) == \E i \in 1..Len(d) : d[i].k = k
DictIdx(d, k) == CHOOSE i \in 1..Len(d) : d[i].k = k
DictGet(d, k) == d[DictIdx(d, k)].v
DictGetOr(d, k, default) == IF DictHas(d, k) THEN DictGet(d, k) ELSE default
DictSet(d, k, v) ==
    IF DictHas(d, k) THEN [d EXCEPT ![DictIdx(d, k)] = [k |-> k, v |-> v]]
    ELSE Append(d, [k |-> k, v |-> v])
DictKeys(d) == {d[i].k : i \in 1..Len(d)}
DictValues(d) == [i \in 1..Len(d) |-> d[i].v]

(***************************************************************************)
(* Receipt identity and deduplication.                                     *)
(***************************************************************************)
\* mutant: the id takes priority over the source hash
_receipt_key_id_first(receipt) ==
    IF Truthy(Get(receipt, "id")) THEN Str(receipt.id)
    ELSE IF Truthy(Get(receipt, "source_hash")) THEN Str(receipt.source_hash)
    ELSE AmountStr(receipt.amount) \o "|" \o Str(GetOr(receipt, "date", "")) \o "|"
         \o Str(GetOr(receipt, "vendor", "")) \o "|" \o Join(receipt.category, ",")

_receipt_key(receipt) ==
    IF Truthy(Get(receipt, "source_hash")) THEN Str(receipt.source_hash)
    ELSE IF Truthy(Get(receipt, "id")) THEN Str(receipt.id)
    ELSE AmountStr(receipt.amount) \o "|" \o Str(GetOr(receipt, "date", "")) \o "|"
         \o Str(GetOr(receipt, "vendor", "")) \o "|" \o Join(receipt.category, ",")

RECURSIVE MergeInto(_, _)
\* for receipt in receipts: d[_receipt_key(receipt)] = receipt
MergeInto(d, receipts) ==
    IF receipts = <<>> THEN d
    ELSE MergeInto(DictSet(d, _receipt_key(Head(receipts)), Head(receipts)),
                   Tail(receipts))

RECURSIVE MergeFirstWins(_, _)
MergeFirstWins(d, receipts) ==
    IF receipts = <<>> THEN d
    ELSE LET r == Head(receipts)
         IN  MergeFirstWins(IF DictHas(d, _receipt_key(r)) THEN d
                            ELSE DictSet(d, _receipt_key(r), r),
                            Tail(receipts))

\* mutant: the first occurrence of a key wins
dedupe_first_wins(receipts) == DictValues(MergeFirstWins(<<>>, receipts))

dedupe_receipts(receipts) == DictValues(MergeInto(<<>>, receipts))

\* mutant: an existing entry is kept instead of overwritten
_merge_keep_existing(st, receipts) ==
    [st EXCEPT !.receipts = MergeFirstWins(st.receipts, receipts)]

_merge_receipts_into_state(st, receipts) ==
    [st EXCEPT !.receipts = MergeInto(st.receipts, receipts)]

(***************************************************************************)
(* The state file as JSON text.  A token is [t, s, r]: t its kind, s the   *)
(* string of a key or string token, r the receipt of a receipt token.      *)
(***************************************************************************)
Rcpt(h, i, a, dt, v, c, x, sf) ==
    [source_hash |-> h, id |-> i, amount |-> a, date |-> dt, vendor |-> v,
     category |-> c, excludeFromTable |-> x, source_file |-> sf]

NoReceipt == Rcpt(Absent, Absent, 0, Absent, Absent, <<>>, FALSE, Absent)

Tok(t, s, r) == [t |-> t, s |-> s, r |-> r]
LBrace == Tok("{", "", NoReceipt)
RBrace == Tok("}", "", NoReceipt)
KeyTok(k) == Tok("key", k, NoReceipt)
StrTok(s) == Tok("str", s, NoReceipt)
RcptTok(r) == Tok("rcpt", "", r)
NullTok == Tok("null", "", NoReceipt)
LBracket == Tok("[", "", NoReceipt)
RBracket == Tok("]", "", NoReceipt)

RECURSIVE DumpMembers(_, _)
\* the members of a dict whose values are strings (leaf = "str") or receipts
DumpMembers(d, leaf) ==
    IF d = <<>> THEN <<>>
    ELSE <<KeyTok(Head(d).k),
           IF leaf = "str" THEN StrTok(Head(d).v) ELSE RcptTok(Head(d).v)>>
         \o DumpMembers(Tail(d), leaf)

\* mutant: the receipts section is written empty
json_dump_no_receipts(st) ==
    <<LBrace, KeyTok("files"), LBrace>> \o DumpMembers(st.files, "str")
    \o <<RBrace, KeyTok("receipts"), LBrace, RBrace, RBrace>>

\* json.dump of a normalized state {"files": ..., "receipts": ...}
json_dump(st) ==
    <<LBrace, KeyTok("files"), LBrace>> \o DumpMembers(st.files, "str")
    \o <<RBrace, KeyTok("receipts"), LBrace>> \o DumpMembers(st.receipts, "rcpt")
    \o <<RBrace, RBrace>>

ParseFail == [ok |-> FALSE, d |-> <<>>, next |-> 0]

RECURSIVE ParseMembers(_, _, _)
\* the members of an object up to its closing brace, from position i on;
\* a repeated key overwrites, as in json.load
ParseMembers(text, i, acc) ==
    IF i > Len(text) THEN ParseFail
    ELSE IF text[i].t = "}" THEN [ok |-> TRUE, d |-> acc, next |-> i + 1]
    ELSE IF text[i].t # "key" \/ i + 1 > Len(text) THEN ParseFail
    ELSE LET k == text[i].s
             v == text[i + 1]
         IN  IF v.t = "str" THEN ParseMembers(text, i + 2, DictSet(acc, k, v.s))
             ELSE IF v.t = "rcpt" THEN ParseMembers(text, i + 2, DictSet(acc, k, v.r))
             ELSE IF v.t = "{"
                  THEN LET sub == ParseMembers(text, i + 2, <<>>)
                       IN  IF sub.ok
                           THEN ParseMembers(text, sub.next, DictSet(acc, k, sub.d))
                           ELSE ParseFail
             ELSE ParseFail

\* json.load: [ok] is FALSE when json.JSONDecodeError is raised; [isdict] tells
\* whether the parsed value is a dict, [d] is that dict
json_load(text) ==
    IF text = <<>> THEN [ok |-> FALSE, isdict |-> FALSE, d |-> <<>>]
    ELSE IF text[1].t = "{"
         THEN LET p == ParseMembers(text, 2, <<>>)
              IN  IF p.ok /\ p.next = Len(text) + 1
                  THEN [ok |-> TRUE, isdict |-> TRUE, d |-> p.d]
                  ELSE [ok |-> FALSE, isdict |-> FALSE, d |-> <<>>]
    ELSE IF text \in {<<NullTok>>, <<LBracket, RBracket>>}
         THEN [ok |-> TRUE, isdict |-> FALSE, d |-> <<>>]
    ELSE [ok |-> FALSE, isdict |-> FALSE, d |-> <<>>]

EmptyState == [files |-> <<>>, receipts |-> <<>>]

\* a Python value: a dict (isdict) with members d, or some other value
PyDict(d) == [isdict |-> TRUE, d |-> d]
\* the dict {"files": st.files, "receipts": st.receipts}
AsPy(st) == PyDict(<<[k |-> "files", v |-> st.files],
                     [k |-> "receipts", v |-> st.receipts]>>)

\* mutant: a legacy flat map is not recognised and is dropped
_normalize_state_no_legacy(py) ==
    IF ~py.isdict THEN EmptyState
    ELSE [files |-> DictGetOr(py.d, "files", <<>>),
          receipts |-> DictGetOr(py.d, "receipts", <<>>)]

_normalize_state(py) ==
    IF ~py.isdict THEN EmptyState
    ELSE IF DictHas(py.d, "files") \/ DictHas(py.d, "receipts")
         THEN [files |-> DictGetOr(py.d, "files", <<>>),
               receipts |-> DictGetOr(py.d, "receipts", <<>>)]
    ELSE [files |-> py.d, receipts |-> <<>>]

MissingFile == [exists |-> FALSE, text |-> <<>>]
FileWith(text) == [exists |-> TRUE, text |-> text]

\* load_state: [raised] when json.load raises, else the normalized state
load_state(file) ==
    IF file.exists
    THEN LET p == json_load(file.text)
         IN  IF p.ok THEN [raised |-> FALSE, state |-> _normalize_state(p)]
             ELSE [raised |-> TRUE, state |-> EmptyState]
    ELSE [raised |-> FALSE, state |-> _normalize_state(PyDict(<<>>))]

\* the text save_state writes for the Python value it is given
save_text(py) == json_dump(_normalize_state(py))

(***************************************************************************)
(* Inputs of the model.                                                    *)
(***************************************************************************)
FileNames == {"a.jpg", "B.PNG", "c.txt", "d.png"}
Hashes == {"h1", "h2"}

\* the receipts the pure functions are applied to: with and without a source
\* hash, with and without an id, composite keys that coincide and that differ
ReceiptUniverse ==
    {Rcpt(h, i, 1250, "01/15/2026", v, <<"Groceries">>, FALSE, Absent) :
        h \in {Absent, "", "h1", "h2"}, i \in {None, "r1"}, v \in {"Cafe", "Target"}}

\* the batches merged into a stored state
StoreReceipts ==
    {Rcpt(h, "r1", a, "01/15/2026", "Cafe", <<>>, FALSE, Absent) :
        h \in {Absent, "h1", "h2"}, a \in {1250, 300}}

SeqsUpTo(S, n) == UNION {[1..m -> S] : m \in 0..n}

NoFiles == [f \in FileNames |-> [kind |-> "none", hash |-> ""]]
NoArgs == [duplicates |-> FALSE, files |-> <<>>]

NoHash == ""

\* client.open(SPREADSHEET_NAME) finds no spreadsheet
NoSpreadsheet == [exists |-> FALSE, sheets |-> <<>>]

\* no result yet of _filter_excluded_receipts
NoPartition == [raised |-> FALSE, included |-> <<>>, excluded |-> <<>>]

\* no duplicate lookup yet: whether get_gspread_client returned, how
\* client.open ended, the worksheets whose records could not be read, whether
\* check_for_duplicates raised, and the existing-key set it worked with
NoCheck ==
    [auth |-> TRUE, open |-> "ok", unreadable |-> {}, raised |-> FALSE, existing |-> {}]

\* a render of the web app that has not decided on Google Sheets yet
NoApp == [sheets_available |-> FALSE, lookups |-> 0]

\* no upload has been completed before the current one
NoFirst == [auth |-> TRUE, steps |-> <<>>, sheet0 |-> NoSpreadsheet]

\* no viewing mode has run
NoView == [ran |-> FALSE, tsv_of |-> <<>>, tsv |-> <<>>, table_of |-> <<>>, table |-> <<>>]

HistInit ==
    [loaded |-> EmptyState, before |-> EmptyState, keys |-> <<>>,
     deduped |-> <<>>, flat |-> <<>>, saved_flat |-> FALSE,
     committed |-> MissingFile, loaded_from |-> MissingFile, seen |-> {},
     lastok |-> [f \in FileNames |-> NoHash], ok_files |-> {},
     old_files |-> <<>>, quiet |-> NoPartition, warn |-> NoPartition,
     auth |-> TRUE, sheet0 |-> NoSpreadsheet, steps |-> <<>>,
     check |-> NoCheck, outcomes |-> <<>>, writes |-> <<>>,
     raw |-> <<>>, lines |-> <<>>, disk0 |-> MissingFile,
     reads |-> 0, opens |-> 0, view |-> NoView,
     allok |-> FALSE, round |-> 1, first |-> NoFirst,
     app |-> NoApp]

(***************************************************************************)
(* SpecDedupe: _receipt_key and dedupe_receipts applied to every batch of  *)
(* at most MaxLen receipts of ReceiptUniverse.                             *)
(***************************************************************************)
InitDedupe ==
    /\ results \in SeqsUpTo(ReceiptUniverse, MaxLen)
    /\ pc = "h_start"
    /\ disk = MissingFile
    /\ dir = NoFiles
    /\ args = NoArgs
    /\ state = EmptyState
    /\ to_process = <<>>
    /\ idx = 0
    /\ pending = <<>>
    /\ spreadsheet = NoSpreadsheet
    /\ worksheets = <<>>
    /\ duplicates_found = <<>>
    /\ new_receipts = <<>>
    /\ hist = HistInit

HKey ==
    /\ pc = "h_start"
    /\ hist' = [hist EXCEPT !.keys = [i \in 1..Len(results) |-> _receipt_key(results[i])]]
    /\ pc' = "h_keyed"
    /\ UNCHANGED <<disk, dir, args, state, to_process, idx, results, pending>>
    /\ UNCHANGED sheetvars

HDedupe ==
    /\ pc = "h_keyed"
    /\ hist' = [hist EXCEPT !.deduped = dedupe_receipts(results)]
    /\ pc' = "h_deduped"
    /\ UNCHANGED <<disk, dir, args, state, to_process, idx, results, pending>>
    /\ UNCHANGED sheetvars

NextDedupe == HKey \/ HDedupe

SpecDedupe == InitDedupe /\ [][NextDedupe]_vars

\* C3: for every input sequence dedupe_receipts returns exactly one receipt per
\* distinct receipt key of the input, namely the last input element with that
\* key, and returns no receipt that is not in the input.
C3_DedupeLastWins ==
    pc = "h_deduped" =>
        LET out == hist.deduped
            keys == {hist.keys[i] : i \in 1..Len(results)}
            last(k) == CHOOSE i \in 1..Len(results) :
                           /\ hist.keys[i] = k
                           /\ \A j \in (i + 1)..Len(results) : hist.keys[j] # k
        IN  /\ Len(out) = Cardinality(keys)
            /\ \A k \in keys : \E j \in 1..Len(out) : out[j] = results[last(k)]
            /\ \A j \in 1..Len(out) : \E i \in 1..Len(results) : out[j] = results[i]

C3_Witness ==
    /\ pc = "h_deduped"
    /\ Len(results) = 3
    /\ Len(hist.deduped) = 2
    /\ hist.keys[1] = hist.keys[2]
    /\ results[1] # results[2]

\* C4: the receipt key is the source_hash when present and non-empty, else the
\* id when present and non-empty, else the composite amount|date|vendor|categories;
\* receipts with equal non-empty source_hash share a key and receipts with
\* different non-empty source_hash never do.
C4_ReceiptKey ==
    pc = "h_keyed" =>
        LET hasHash(r) == r.source_hash \notin {Absent, None, ""}
            hasId(r) == r.id \notin {Absent, None, ""}
        IN  /\ \A i \in 1..Len(results) :
                   LET r == results[i]
                   IN  hist.keys[i] =
                           IF hasHash(r) THEN r.source_hash
                           ELSE IF hasId(r) THEN r.id
                           ELSE "12.5|01/15/2026|" \o r.vendor \o "|Groceries"
            /\ \A i, j \in 1..Len(results) :
                   hasHash(results[i]) /\ hasHash(results[j]) =>
                       (hist.keys[i] = hist.keys[j]
                            <=> results[i].source_hash = results[j].source_hash)

C4_Witness ==
    /\ pc = "h_keyed"
    /\ Len(results) = 3
    /\ results[1].source_hash = "h1" /\ results[2].source_hash = "h1"
    /\ results[1].id # results[2].id /\ results[1].vendor # results[2].vendor
    /\ hist.keys[1] = hist.keys[2]
    /\ results[3].source_hash = "" /\ results[3].id = None
    /\ hist.keys[3] = "12.5|01/15/2026|Cafe|Groceries"

(***************************************************************************)
(* SpecStore: load_state, _merge_receipts_into_state and save_state        *)
(* applied to every stored file of StoreDisks and every batch of at most   *)
(* MaxLen receipts of StoreReceipts.                                       *)
(***************************************************************************)
StoredReceipt == Rcpt("h1", "r0", 999, "01/02/2026", "Old", <<>>, FALSE, "a.jpg")
StoredLegacy == Rcpt(Absent, "r7", 500, "01/03/2026", "Older", <<>>, FALSE, Absent)

FullState ==
    [files |-> <<[k |-> "a.jpg", v |-> "h1"]>>,
     receipts |-> <<[k |-> "h1", v |-> StoredReceipt], [k |-> "r7", v |-> StoredLegacy]>>]

LegacyMaps ==
    {<<>>, <<[k |-> "a.jpg", v |-> "h1"]>>,
     <<[k |-> "B.PNG", v |-> "h2"], [k |-> "a.jpg", v |-> "h1"]>>}

FullDisk == FileWith(json_dump(FullState))
FilesOnlyDisk ==
    FileWith(<<LBrace, KeyTok("files"), LBrace, KeyTok("a.jpg"), StrTok("h2"),
               RBrace, RBrace>>)
ReceiptsOnlyDisk ==
    FileWith(<<LBrace, KeyTok("receipts"), LBrace, KeyTok("r7"), RcptTok(StoredLegacy),
               RBrace, RBrace>>)
LegacyDisk ==
    FileWith(<<LBrace, KeyTok("B.PNG"), StrTok("h2"), KeyTok("a.jpg"), StrTok("h1"),
               RBrace>>)
EmptyObjectDisk == FileWith(<<LBrace, RBrace>>)
TruncatedDisk == FileWith(<<LBrace, KeyTok("files"), LBrace, KeyTok("a.jpg")>>)

StoreDisks ==
    {MissingFile, FullDisk, FilesOnlyDisk, ReceiptsOnlyDisk, LegacyDisk,
     EmptyObjectDisk, TruncatedDisk}

InitStore ==
    /\ disk \in StoreDisks
    /\ results \in SeqsUpTo(StoreReceipts, MaxLen)
    /\ pc = "h_start"
    /\ dir = NoFiles
    /\ args = NoArgs
    /\ state = EmptyState
    /\ to_process = <<>>
    /\ idx = 0
    /\ pending = <<>>
    /\ spreadsheet = NoSpreadsheet
    /\ worksheets = <<>>
    /\ duplicates_found = <<>>
    /\ new_receipts = <<>>
    /\ hist = HistInit

\* state = load_state()
HLoad ==
    /\ pc \in {"h_start", "h_saved"}
    /\ LET l == load_state(disk)
       IN  IF l.raised
           THEN /\ pc' = "h_raised"
                /\ UNCHANGED <<state, hist>>
           ELSE /\ state' = l.state
                /\ pc' = IF pc = "h_start" THEN "h_loaded" ELSE "h_reloaded"
                /\ hist' = IF pc = "h_start" THEN [hist EXCEPT !.loaded = l.state]
                           ELSE hist
    /\ UNCHANGED <<disk, dir, args, to_process, idx, results, pending>>
    /\ UNCHANGED sheetvars

\* _merge_receipts_into_state(state, receipts)
HMerge ==
    /\ pc = "h_loaded"
    /\ state' = _merge_receipts_into_state(state, results)
    /\ hist' = [hist EXCEPT !.before = state,
                            !.keys = [i \in 1..Len(results) |-> _receipt_key(results[i])]]
    /\ pc' = "h_merged"
    /\ UNCHANGED <<disk, dir, args, to_process, idx, results, pending>>
    /\ UNCHANGED sheetvars

\* save_state(state), run to completion
HSave ==
    /\ pc = "h_merged"
    /\ disk' = FileWith(save_text(AsPy(state)))
    /\ pc' = "h_saved"
    /\ UNCHANGED <<dir, args, state, to_process, idx, results, pending, hist>>
    /\ UNCHANGED sheetvars

\* save_state(flat) for a legacy flat filename -> hash map, run to completion
HSaveFlat ==
    /\ pc = "h_start"
    /\ results = <<>>
    /\ \E flat \in LegacyMaps :
           /\ disk' = FileWith(save_text(PyDict(flat)))
           /\ hist' = [hist EXCEPT !.flat = flat, !.saved_flat = TRUE]
    /\ pc' = "h_saved"
    /\ UNCHANGED <<dir, args, state, to_process, idx, results, pending>>
    /\ UNCHANGED sheetvars

NextStore == HLoad \/ HMerge \/ HSave \/ HSaveFlat

SpecStore == InitStore /\ [][NextStore]_vars

\* the index of the last receipt of the batch whose key is k
LastInBatch(k) ==
    CHOOSE i \in 1..Len(results) :
        /\ hist.keys[i] = k
        /\ \A j \in (i + 1)..Len(results) : hist.keys[j] # k

BatchKeys == {hist.keys[i] : i \in 1..Len(results)}

\* C2 as stated: after save(merge(load(), receipts)); load() the receipts
\* mapping holds every input receipt under its derived key.
C2_Original ==
    pc = "h_reloaded" /\ ~hist.saved_flat =>
        \A i \in 1..Len(results) :
            /\ DictHas(state.receipts, hist.keys[i])
            /\ DictGet(state.receipts, hist.keys[i]) = results[i]

\* C2 (amended): after save(merge(load(), receipts)); load() the receipts mapping
\* holds, under every derived key of the batch, the last input receipt with that
\* key; an input receipt is held under its key unless a later receipt of the
\* batch has the same key.
C2_RoundTrip ==
    pc = "h_reloaded" /\ ~hist.saved_flat =>
        /\ \A i \in 1..Len(results) :
               /\ DictHas(state.receipts, hist.keys[i])
               /\ DictGet(state.receipts, hist.keys[i]) = results[LastInBatch(hist.keys[i])]
        /\ state = [files |-> hist.loaded.files,
                    receipts |-> MergeInto(hist.loaded.receipts, results)]

C2_Witness ==
    /\ pc = "h_reloaded"
    /\ ~hist.saved_flat
    /\ Len(results) = 3
    /\ hist.keys[1] = hist.keys[3]
    /\ results[1] # results[3]
    /\ hist.keys[2] # hist.keys[1]
    /\ DictHas(hist.loaded.receipts, hist.keys[1])
    /\ DictGet(state.receipts, hist.keys[1]) = results[3]
    /\ DictGet(state.receipts, hist.keys[2]) = results[2]

\* C7: load_state returns {files: {}, receipts: {}} for a missing file; a parsed
\* object with a files or a receipts key keeps those, a missing one defaulting
\* to {}; any other object is a legacy flat map and becomes files, with receipts
\* empty; saving a legacy flat map and loading it back yields
\* {files: <that map>, receipts: {}}.
C7_LoadNormalizes ==
    /\ pc = "h_loaded" =>
           /\ disk = MissingFile => state = EmptyState
           /\ disk = FullDisk => state = FullState
           /\ disk = FilesOnlyDisk =>
                  state = [files |-> <<[k |-> "a.jpg", v |-> "h2"]>>, receipts |-> <<>>]
           /\ disk = ReceiptsOnlyDisk =>
                  state = [files |-> <<>>,
                           receipts |-> <<[k |-> "r7", v |-> StoredLegacy]>>]
           /\ disk = LegacyDisk =>
                  state = [files |-> <<[k |-> "B.PNG", v |-> "h2"],
                                       [k |-> "a.jpg", v |-> "h1"]>>,
                           receipts |-> <<>>]
           /\ disk = EmptyObjectDisk => state = EmptyState
    /\ pc = "h_reloaded" /\ hist.saved_flat =>
           state = [files |-> hist.flat, receipts |-> <<>>]

C7_Witness ==
    /\ pc = "h_reloaded"
    /\ hist.saved_flat
    /\ Len(hist.flat) = 2
    /\ state.files = hist.flat

\* C10: _merge_receipts_into_state sets receipts[key(r)] = r for every receipt of
\* the batch, so each key of the batch maps to the last batch receipt with that
\* key; entries under other keys and the whole files map are unchanged.
C10_MergeFrame ==
    pc = "h_merged" =>
        /\ DictKeys(state.receipts) = DictKeys(hist.before.receipts) \cup BatchKeys
        /\ \A k \in BatchKeys :
               DictGet(state.receipts, k) = results[LastInBatch(k)]
        /\ \A k \in DictKeys(hist.before.receipts) \ BatchKeys :
               DictGet(state.receipts, k) = DictGet(hist.before.receipts, k)
        /\ state.files = hist.before.files
        /\ Len(state.receipts) = Cardinality(DictKeys(state.receipts))

C10_Witness ==
    /\ pc = "h_merged"
    /\ Len(results) = 2
    /\ hist.keys[1] = "h1"
    /\ DictHas(hist.before.receipts, "h1")
    /\ DictGet(hist.before.receipts, "h1") = StoredReceipt
    /\ DictGet(state.receipts, "h1") = results[1]
    /\ DictGet(state.receipts, "r7") = StoredLegacy
    /\ hist.keys[2] = "h2"
    /\ state.files # <<>>

(***************************************************************************)
(* Spec: processing runs of main() over the receipts directory and the     *)
(* state file, with the process killed at any point and files edited       *)
(* between runs.                                                           *)
(***************************************************************************)
\* os.path.splitext(filename)[1]
Ext(filename) ==
    CASE filename \in {"a.jpg", "in/a.jpg"} -> ".jpg"
      [] filename \in {"B.PNG", "in/B.PNG"} -> ".PNG"
      [] filename \in {"c.txt", "in/c.txt"} -> ".txt"
      [] filename \in {"d.png", "in/d.png"} -> ".png"

\* str.lower() on the extensions of the model
Lower(ext) == IF ext = ".PNG" THEN ".png" ELSE ext

VALID_EXTENSIONS == {".jpg", ".jpeg", ".png", ".gif", ".bmp", ".webp", ".tiff"}

is_valid_image(filename) == Lower(Ext(filename)) \in VALID_EXTENSIONS

\* position of a filename in code-point order ("B" sorts before "a")
Rank(filename) ==
    CASE filename = "B.PNG" -> 1
      [] filename = "a.jpg" -> 2
      [] filename = "c.txt" -> 3
      [] filename = "d.png" -> 4

RECURSIVE Sorted(_)
\* sorted(names)
Sorted(names) ==
    IF names = {} THEN <<>>
    ELSE LET first == CHOOSE f \in names : \A g \in names : Rank(f) <= Rank(g)
         IN  <<first>> \o Sorted(names \ {first})

\* os.listdir(RECEIPTS_DIR)
listdir(d) == {f \in FileNames : d[f].kind # "none"}

RECURSIVE PlanDirectory(_, _, _, _)
\* the loop of get_receipts_to_process over the sorted directory listing
PlanDirectory(names, d, seen_files, allow_duplicates) ==
    IF names = <<>> THEN <<>>
    ELSE LET filename == Head(names)
             rest == PlanDirectory(Tail(names), d, seen_files, allow_duplicates)
             current_hash == d[filename].hash
         IN  IF ~is_valid_image(filename) THEN rest
             ELSE IF d[filename].kind # "file" THEN rest
             ELSE IF /\ ~allow_duplicates
                     /\ DictHas(seen_files, filename)
                     /\ DictGet(seen_files, filename) = current_hash
                  THEN rest
             ELSE <<[filename |-> filename, hash |-> current_hash]>> \o rest

\* mutant: a file is skipped whenever its name is in the fingerprint map
get_receipts_to_process_by_name(d, st, allow_duplicates) ==
    LET keep == {f \in listdir(d) : allow_duplicates \/ ~DictHas(st.files, f)}
    IN  PlanDirectory(Sorted(keep), d, <<>>, TRUE)

\* get_receipts_to_process in directory mode, given the loaded state
get_receipts_to_process(d, st, allow_duplicates) ==
    PlanDirectory(Sorted(listdir(d)), d, st.files, allow_duplicates)

\* mutant: main does not set source_hash
ExtractedUnhashed(filename, file_h) ==
    Rcpt(Absent, "r-" \o file_h, 1250, "01/15/2026", "Cafe", <<"Groceries">>,
         FALSE, filename)

\* the record extract_receipt returns for a file of the given content, with
\* source_file and source_hash set by main
Extracted(filename, file_h) ==
    Rcpt(file_h, "r-" \o file_h, 1250, "01/15/2026", "Cafe", <<"Groceries">>,
         FALSE, filename)

NonDictDisk == FileWith(<<LBracket, RBracket>>)
LegacyA == FileWith(<<LBrace, KeyTok("a.jpg"), StrTok("h1"), RBrace>>)

InitDisks == {MissingFile, LegacyA, NonDictDisk}

File(h) == [kind |-> "file", hash |-> h]
InitDirs ==
    {[f \in FileNames |->
         CASE f = "a.jpg" -> File(a)
           [] f = "B.PNG" -> b
           [] f = "c.txt" -> File("h1")
           [] f = "d.png" -> [kind |-> "dir", hash |-> NoHash]] :
        a \in Hashes, b \in {File("h1"), [kind |-> "none", hash |-> NoHash]}}

StoredFiles(file) ==
    LET l == load_state(file)
    IN  IF l.raised THEN <<>> ELSE l.state.files

Init ==
    /\ disk \in InitDisks
    /\ dir \in InitDirs
    /\ pc = "idle"
    /\ args = NoArgs
    /\ state = EmptyState
    /\ to_process = <<>>
    /\ idx = 0
    /\ results = <<>>
    /\ pending = <<>>
    /\ spreadsheet = NoSpreadsheet
    /\ worksheets = <<>>
    /\ duplicates_found = <<>>
    /\ new_receipts = <<>>
    /\ hist = [HistInit EXCEPT
                   !.disk0 = disk,
                   !.committed = disk,
                   !.seen = DictKeys(StoredFiles(disk)),
                   !.lastok = [f \in FileNames |->
                                  DictGetOr(StoredFiles(disk), f, NoHash)]]

\* the process ends: its memory is gone
Exit ==
    /\ pc' = "idle"
    /\ hist' = [hist EXCEPT !.loaded_from = MissingFile, !.ok_files = {},
                            !.old_files = <<>>, !.reads = 0, !.opens = 0]
    /\ args' = NoArgs
    /\ state' = EmptyState
    /\ to_process' = <<>>
    /\ idx' = 0
    /\ results' = <<>>
    /\ pending' = <<>>

\* main() is started in processing mode on the receipts directory
Start ==
    /\ pc = "idle"
    /\ \E d \in BOOLEAN : args' = [duplicates |-> d, files |-> <<>>]
    /\ pc' = "plan"
    /\ UNCHANGED <<disk, dir, state, to_process, idx, results, pending, hist>>
    /\ UNCHANGED sheetvars

\* to_process = get_receipts_to_process(...): load_state raises (fatal) or the
\* plan is computed
Plan ==
    /\ pc = "plan"
    /\ LET l == load_state(disk)
       IN  IF l.raised
           THEN Exit
           ELSE /\ to_process' = get_receipts_to_process(dir, l.state, args.duplicates)
                /\ pc' = "planned"
                /\ hist' = [hist EXCEPT !.loaded_from = disk, !.reads = @ + 1]
                /\ UNCHANGED <<args, state, idx, results, pending>>
    /\ UNCHANGED <<disk, dir>>
    /\ UNCHANGED sheetvars

\* if not to_process: sys.exit(0)
NothingToProcess ==
    /\ pc = "planned"
    /\ to_process = <<>>
    /\ Exit
    /\ UNCHANGED <<disk, dir>>
    /\ UNCHANGED sheetvars

\* results = []; state = load_state()
LoadState ==
    /\ pc = "planned"
    /\ to_process # <<>>
    /\ LET l == load_state(disk)
       IN  IF l.raised
           THEN Exit
           ELSE /\ state' = l.state
                /\ results' = <<>>
                /\ idx' = 1
                /\ pc' = "extract"
                /\ hist' = [hist EXCEPT !.loaded_from = disk,
                                        !.old_files = l.state.files,
                                        !.reads = @ + 1]
                /\ UNCHANGED <<args, to_process, pending>>
    /\ UNCHANGED <<disk, dir>>
    /\ UNCHANGED sheetvars

\* mutant: the fingerprint is recorded before the extraction is attempted
ExtractFailRecords ==
    /\ pc = "extract"
    /\ idx <= Len(to_process)
    /\ state' = [state EXCEPT !.files =
                     DictSet(state.files, to_process[idx].filename, to_process[idx].hash)]
    /\ idx' = idx + 1
    /\ UNCHANGED <<disk, dir, pc, args, to_process, results, pending, hist>>
    /\ UNCHANGED sheetvars

\* one iteration of the extraction loop in which extract_receipt raises
ExtractFail ==
    /\ pc = "extract"
    /\ idx <= Len(to_process)
    /\ idx' = idx + 1
    /\ UNCHANGED <<disk, dir, pc, args, state, to_process, results, pending, hist>>
    /\ UNCHANGED sheetvars

\* mutant: the fingerprint of an extracted file is not recorded
ExtractOkForgets ==
    /\ pc = "extract"
    /\ idx <= Len(to_process)
    /\ results' = Append(results, Extracted(to_process[idx].filename, to_process[idx].hash))
    /\ hist' = [hist EXCEPT !.ok_files = hist.ok_files \cup {to_process[idx].filename}]
    /\ idx' = idx + 1
    /\ UNCHANGED <<disk, dir, pc, args, state, to_process, pending>>
    /\ UNCHANGED sheetvars

\* one iteration of the extraction loop in which extract_receipt returns
ExtractOk ==
    /\ pc = "extract"
    /\ idx <= Len(to_process)
    /\ LET filename == to_process[idx].filename
           file_h == to_process[idx].hash
       IN  /\ results' = Append(results, Extracted(filename, file_h))
           /\ state' = [state EXCEPT !.files = DictSet(state.files, filename, file_h)]
           /\ hist' = [hist EXCEPT !.ok_files = hist.ok_files \cup {filename}]
    /\ idx' = idx + 1
    /\ UNCHANGED <<disk, dir, pc, args, to_process, pending>>
    /\ UNCHANGED sheetvars

\* mutant: a run without results saves its state as well
NoResultsSaves ==
    /\ pc = "extract"
    /\ idx > Len(to_process)
    /\ results = <<>>
    /\ pending' = save_text(AsPy(state))
    /\ pc' = "save_open"
    /\ UNCHANGED <<disk, dir, args, state, to_process, idx, results, hist>>
    /\ UNCHANGED sheetvars

\* if not results: sys.exit(1)
NoResults ==
    /\ pc = "extract"
    /\ idx > Len(to_process)
    /\ results = <<>>
    /\ Exit
    /\ UNCHANGED <<disk, dir>>
    /\ UNCHANGED sheetvars

\* dedupe, write the outputs, merge into state; save_state normalizes the state
\* and is about to open the file
MergeResults ==
    /\ pc = "extract"
    /\ idx > Len(to_process)
    /\ results # <<>>
    /\ LET deduped_results == dedupe_receipts(results)
           merged == _merge_receipts_into_state(state, deduped_results)
       IN  /\ state' = merged
           /\ pending' = save_text(AsPy(merged))
    /\ pc' = "save_open"
    /\ UNCHANGED <<disk, dir, args, to_process, idx, results, hist>>
    /\ UNCHANGED sheetvars

\* open(STATE_FILE, "w"): the file is created or truncated
SaveOpen ==
    /\ pc = "save_open"
    /\ disk' = FileWith(<<>>)
    /\ pc' = "save_write"
    /\ hist' = [hist EXCEPT !.opens = @ + 1]
    /\ UNCHANGED <<dir, args, state, to_process, idx, results, pending>>
    /\ UNCHANGED sheetvars

\* the fingerprint the plan of this run holds for filename f
PlannedHash(f) ==
    to_process[CHOOSE i \in 1..Len(to_process) :
                   /\ to_process[i].filename = f
                   /\ \A j \in (i + 1)..Len(to_process) : to_process[j].filename # f].hash

\* json.dump: the next piece of the text reaches the file; with the last piece
\* the new content is complete
SaveWrite ==
    /\ pc = "save_write"
    /\ Len(disk.text) < Len(pending)
    /\ disk' = FileWith(Append(disk.text, pending[Len(disk.text) + 1]))
    /\ hist' = IF disk'.text = pending
               THEN [hist EXCEPT
                        !.committed = disk',
                        !.seen = hist.seen \cup DictKeys(StoredFiles(disk')),
                        !.lastok = [f \in FileNames |->
                                       IF f \in hist.ok_files
                                       THEN PlannedHash(f) ELSE hist.lastok[f]],
                        !.allok = (hist.ok_files =
                                       {to_process[i].filename : i \in 1..Len(to_process)})]
               ELSE hist
    /\ UNCHANGED <<dir, pc, args, state, to_process, idx, results, pending>>
    /\ UNCHANGED sheetvars

\* the with block ends: the file is closed and save_state returns
SaveClose ==
    /\ pc = "save_write"
    /\ Len(disk.text) = Len(pending)
    /\ pc' = "saved"
    /\ UNCHANGED <<disk, dir, args, state, to_process, idx, results, pending, hist>>
    /\ UNCHANGED sheetvars

\* the summary is printed and main returns
Report ==
    /\ pc = "saved"
    /\ Exit
    /\ UNCHANGED <<disk, dir>>
    /\ UNCHANGED sheetvars

\* the process is killed
Crash ==
    /\ pc # "idle"
    /\ Exit
    /\ UNCHANGED <<disk, dir>>
    /\ UNCHANGED sheetvars

\* between runs a receipt image is replaced, added or removed
EditFile ==
    /\ pc = "idle"
    /\ \/ \E h \in Hashes : dir' = [dir EXCEPT !["a.jpg"] = File(h)]
       \/ \E b \in {File("h1"), [kind |-> "none", hash |-> NoHash]} :
              dir' = [dir EXCEPT !["B.PNG"] = b]
    /\ dir' # dir
    /\ hist' = [hist EXCEPT !.allok = FALSE]
    /\ UNCHANGED <<disk, pc, args, state, to_process, idx, results, pending>>
    /\ UNCHANGED sheetvars

Next ==
    \/ Start \/ Plan \/ NothingToProcess \/ LoadState
    \/ ExtractOk \/ ExtractFail \/ NoResults \/ MergeResults
    \/ SaveOpen \/ SaveWrite \/ SaveClose \/ Report
    \/ Crash \/ EditFile

Spec == Init /\ [][Next]_vars

\* the filenames of the model with a supported image extension, whatever its case
ImageNames == {"a.jpg", "B.PNG", "d.png"}

PlannedNames == {to_process[i].filename : i \in 1..Len(to_process)}

\* C1: in directory mode the plan holds, in lexicographic filename order, exactly
\* the regular files of the receipts directory with a supported image extension,
\* a file being omitted if and only if allow_duplicates is false and the
\* persisted fingerprint map holds for that filename the file's current
\* fingerprint; each planned file is paired with its current fingerprint.
C1_DirectoryPlan ==
    pc = "planned" =>
        LET stored == StoredFiles(disk)
            unchanged(f) == DictHas(stored, f) /\ DictGet(stored, f) = dir[f].hash
            expected == {f \in ImageNames :
                            /\ dir[f].kind = "file"
                            /\ ~(~args.duplicates /\ unchanged(f))}
        IN  /\ PlannedNames = expected
            /\ Len(to_process) = Cardinality(expected)
            /\ \A i, j \in 1..Len(to_process) :
                   i < j => Rank(to_process[i].filename) < Rank(to_process[j].filename)
            /\ \A i \in 1..Len(to_process) :
                   to_process[i].hash = dir[to_process[i].filename].hash

C1_Witness ==
    /\ pc = "planned"
    /\ ~args.duplicates
    /\ DictHas(StoredFiles(disk), "B.PNG")
    /\ DictGet(StoredFiles(disk), "B.PNG") = dir["B.PNG"].hash
    /\ DictHas(StoredFiles(disk), "a.jpg")
    /\ DictGet(StoredFiles(disk), "a.jpg") = "h1"
    /\ to_process = <<[filename |-> "a.jpg", hash |-> "h2"]>>

\* C5: a crash at any point during save_state never leaves the state file
\* half-written or emptied: whenever no process is running, the state file holds
\* the complete content of the last save that completed (or its initial content).
C5_CrashLeavesOldFile == pc = "idle" => disk = hist.committed

\* a state file that exists holds a JSON object
WellFormedState(file) ==
    file.exists => json_load(file.text).ok /\ json_load(file.text).isdict

\* C6: a state file that exists but is not a well-formed state is fatal: no run
\* plans, extracts or saves after loading it as an empty history.
C6_MalformedIsFatal ==
    pc \in {"planned", "extract", "save_open", "save_write", "saved"} =>
        WellFormedState(hist.loaded_from)

\* C8: when a processing run has saved state, files[f] is the fingerprint of f's
\* current content exactly for the planned files whose extraction succeeded in
\* the run, every other filename keeps its previous entry or stays absent; and a
\* readable state file records for every filename the fingerprint of its last
\* successfully processed version.
C8_FilesRecordSuccesses ==
    /\ pc = "saved" =>
           LET files == StoredFiles(disk)
           IN  /\ ~load_state(disk).raised
               /\ hist.ok_files \subseteq PlannedNames
               /\ \A f \in FileNames :
                      IF f \in hist.ok_files
                      THEN DictHas(files, f) /\ DictGet(files, f) = dir[f].hash
                      ELSE DictGetOr(files, f, NoHash)
                               = DictGetOr(hist.old_files, f, NoHash)
    /\ pc = "idle" /\ ~load_state(disk).raised =>
           \A f \in FileNames :
               DictGetOr(StoredFiles(disk), f, NoHash) = hist.lastok[f]

C8_Witness ==
    /\ pc = "saved"
    /\ hist.ok_files = {"a.jpg"}
    /\ PlannedNames = {"a.jpg", "B.PNG"}
    /\ DictHas(hist.old_files, "a.jpg")
    /\ DictGet(hist.old_files, "a.jpg") # dir["a.jpg"].hash
    /\ DictGet(StoredFiles(disk), "a.jpg") = dir["a.jpg"].hash
    /\ ~DictHas(StoredFiles(disk), "B.PNG")

\* C9: across any sequence of runs the persisted fingerprint map only grows: a
\* filename once present in files is still present whenever no process is
\* running, and it has a single entry.
C9_FilesOnlyGrow ==
    pc = "idle" =>
        /\ hist.seen \subseteq DictKeys(StoredFiles(disk))
        /\ Len(StoredFiles(disk)) = Cardinality(DictKeys(StoredFiles(disk)))

(***************************************************************************)
(* SpecFiles: get_receipts_to_process applied to every explicit file list  *)
(* of at most MaxLen paths, over the directories and state files of Spec.  *)
(***************************************************************************)
\* the paths a caller can name: one per filename of the model
Paths == {"in/" \o f : f \in FileNames}

\* os.path.basename(filepath)
basename(filepath) == CHOOSE f \in FileNames : filepath = "in/" \o f

\* os.path.exists(filepath): true of a regular file and of a directory
exists(d, filepath) == d[basename(filepath)].kind # "none"

RECURSIVE PlanFiles(_, _, _)
\* the loop of get_receipts_to_process over an explicit file list; file_hash
\* opens the path for reading, which raises IsADirectoryError on a directory
PlanFiles(files, d, acc) ==
    IF files = <<>> THEN [raised |-> FALSE, plan |-> acc]
    ELSE LET filepath == Head(files)
             filename == basename(filepath)
         IN  IF ~exists(d, filepath) THEN PlanFiles(Tail(files), d, acc)
             ELSE IF ~is_valid_image(filepath) THEN PlanFiles(Tail(files), d, acc)
             ELSE IF d[filename].kind = "dir" THEN [raised |-> TRUE, plan |-> <<>>]
             ELSE PlanFiles(Tail(files), d,
                            Append(acc, [filename |-> filename, filepath |-> filepath,
                                         hash |-> d[filename].hash]))

\* get_receipts_to_process(allow_duplicates, files): the explicit list when it
\* is non-empty, else the directory scan against the loaded state
get_receipts_to_process_files(d, file, allow_duplicates, files) ==
    IF files # <<>> THEN PlanFiles(files, d, <<>>)
    ELSE LET l == load_state(file)
         IN  IF l.raised THEN [raised |-> TRUE, plan |-> <<>>]
             ELSE [raised |-> FALSE,
                   plan |-> get_receipts_to_process(d, l.state, allow_duplicates)]

InitFiles ==
    /\ disk \in InitDisks
    /\ dir \in InitDirs
    /\ args \in [duplicates : BOOLEAN, files : SeqsUpTo(Paths, MaxLen)]
    /\ pc = "h_start"
    /\ state = EmptyState
    /\ to_process = <<>>
    /\ idx = 0
    /\ results = <<>>
    /\ pending = <<>>
    /\ spreadsheet = NoSpreadsheet
    /\ worksheets = <<>>
    /\ duplicates_found = <<>>
    /\ new_receipts = <<>>
    /\ hist = HistInit

\* to_process = get_receipts_to_process(args.duplicates, args.files)
HPlanFiles ==
    /\ pc = "h_start"
    /\ LET r == get_receipts_to_process_files(dir, disk, args.duplicates, args.files)
       IN  /\ to_process' = r.plan
           /\ pc' = IF r.raised THEN "h_raised" ELSE "h_planned"
    /\ UNCHANGED <<disk, dir, args, state, idx, results, pending, hist>>
    /\ UNCHANGED sheetvars

NextFiles == HPlanFiles

SpecFiles == InitFiles /\ [][NextFiles]_vars

\* the listed paths that exist and have a supported image extension, in input order
ListedImages ==
    LET Keep(p) == exists(dir, p) /\ is_valid_image(p)
    IN  SelectSeq(args.files, Keep)

\* C11: for a non-empty explicit file list get_receipts_to_process returns one
\* entry per listed path that exists and has a supported image extension, in
\* input order, whatever allow_duplicates and the persisted fingerprint map are;
\* missing and unsupported paths are skipped and the others are still returned.
C11_ExplicitFiles ==
    pc \in {"h_planned", "h_raised"} /\ args.files # <<>> =>
        /\ pc = "h_planned"
        /\ Len(to_process) = Len(ListedImages)
        /\ \A i \in 1..Len(to_process) :
               /\ to_process[i].filepath = ListedImages[i]
               /\ to_process[i].filename = basename(ListedImages[i])
               /\ to_process[i].hash = dir[basename(ListedImages[i])].hash

(***************************************************************************)
(* SpecFilter: _filter_excluded_receipts applied, with and without         *)
(* warnings, to every batch of at most MaxLen receipts of FilterReceipts.  *)
(***************************************************************************)
\* the amount None: a sentinel that no amount of the model equals
NoneAmount == -1

\* dict.get(key, default) on a dict in which a missing key is a missing field
GetField(receipt, key, default) ==
    IF key \in DOMAIN receipt THEN receipt[key] ELSE default

\* the dict without the key
Without(receipt, key) == [k \in DOMAIN receipt \ {key} |-> receipt[k]]

\* f"{amount:.2f}" raises TypeError when amount is None
FormatRaises(amount) == amount = NoneAmount

RECURSIVE FilterLoop(_, _, _, _)
\* the loop of _filter_excluded_receipts; the warning line is formatted after
\* the receipt is appended to excluded and before the next receipt is looked at
FilterLoop(receipts, print_warnings, included, excluded) ==
    IF receipts = <<>>
    THEN [raised |-> FALSE, included |-> included, excluded |-> excluded]
    ELSE LET receipt == Head(receipts)
         IN  IF GetField(receipt, "excludeFromTable", FALSE)
             THEN IF print_warnings /\ FormatRaises(GetField(receipt, "amount", 0))
                  THEN [raised |-> TRUE, included |-> <<>>, excluded |-> <<>>]
                  ELSE FilterLoop(Tail(receipts), print_warnings, included,
                                  Append(excluded, receipt))
             ELSE FilterLoop(Tail(receipts), print_warnings,
                             Append(included, receipt), excluded)

\* mutant: no receipt is held back
_filter_excluded_receipts_all(receipts, print_warnings) ==
    [raised |-> FALSE, included |-> receipts, excluded |-> <<>>]

_filter_excluded_receipts(receipts, print_warnings) ==
    FilterLoop(receipts, print_warnings, <<>>, <<>>)

\* receipts with the flag set, clear and missing, with an amount and with None
FilterReceipts ==
    LET full == {Rcpt(Absent, "r1", a, "01/15/2026", v, <<>>, x, Absent) :
                    a \in {1250, NoneAmount}, v \in {"Cafe", "Target"}, x \in BOOLEAN}
    IN  full \cup {Without(r, "excludeFromTable") : r \in {q \in full : q.excludeFromTable}}

InitFilter ==
    /\ results \in SeqsUpTo(FilterReceipts, MaxLen)
    /\ pc = "h_start"
    /\ disk = MissingFile
    /\ dir = NoFiles
    /\ args = NoArgs
    /\ state = EmptyState
    /\ to_process = <<>>
    /\ idx = 0
    /\ pending = <<>>
    /\ spreadsheet = NoSpreadsheet
    /\ worksheets = <<>>
    /\ duplicates_found = <<>>
    /\ new_receipts = <<>>
    /\ hist = HistInit

\* _filter_excluded_receipts(receipts, print_warnings=False)
HFilterQuiet ==
    /\ pc = "h_start"
    /\ hist' = [hist EXCEPT !.quiet = _filter_excluded_receipts(results, FALSE)]
    /\ pc' = "h_quiet"
    /\ UNCHANGED <<disk, dir, args, state, to_process, idx, results, pending>>
    /\ UNCHANGED sheetvars

\* _filter_excluded_receipts(receipts, print_warnings=True)
HFilterWarn ==
    /\ pc = "h_quiet"
    /\ hist' = [hist EXCEPT !.warn = _filter_excluded_receipts(results, TRUE)]
    /\ pc' = "h_both"
    /\ UNCHANGED <<disk, dir, args, state, to_process, idx, results, pending>>
    /\ UNCHANGED sheetvars

NextFilter == HFilterQuiet \/ HFilterWarn

SpecFilter == InitFilter /\ [][NextFilter]_vars

\* C12: a receipt is in the excluded list if and only if its excludeFromTable is
\* truthy (a missing field counts as not excluded); included and excluded hold
\* every input receipt exactly once, each in input order; and the partition
\* returned with print_warnings true is the one returned with it false.
C12_FilterPartition ==
    pc = "h_both" =>
        LET IsExcluded(r) == "excludeFromTable" \in DOMAIN r /\ r.excludeFromTable
            IsIncluded(r) == ~IsExcluded(r)
        IN  /\ ~hist.quiet.raised
            /\ hist.quiet.excluded = SelectSeq(results, IsExcluded)
            /\ hist.quiet.included = SelectSeq(results, IsIncluded)
            /\ hist.warn = hist.quiet

(***************************************************************************)
(* The Google spreadsheet as gspread shows it.  A worksheet is its rows, a *)
(* row the texts of its cells; the spreadsheet maps worksheet titles to    *)
(* rows in the order of spreadsheet.worksheets().                          *)
(***************************************************************************)
HEADER == <<"Amount", "Date", "", "Vendor", "Category">>

\* str(v) of the value gspread's numericise makes of a cell text: "12.50" is
\* read as the float 12.5, "0.00" as 0.0, every other text of the model
\* prints as it is
NumericisedStr(cell) ==
    CASE cell = "12.50" -> "12.5"
      [] cell = "0.00" -> "0.0"
      [] OTHER -> cell

\* bool(v) of that value: a blank cell and a zero are falsy
NumericisedTruthy(cell) == cell \notin {"", "0", "0.00"}

\* the column get_all_records files under the key name (the last one with
\* that header), 0 when the first row has no such cell
Column(rows, name) ==
    IF \E j \in 1..Len(rows[1]) : rows[1][j] = name
    THEN CHOOSE j \in 1..Len(rows[1]) :
             /\ rows[1][j] = name
             /\ \A k \in (j + 1)..Len(rows[1]) : rows[1][k] # name
    ELSE 0

\* the text behind record.get(name) for row i of worksheet.get_all_records();
\* a key the first row does not give (None) is blank
RecordCell(rows, i, name) ==
    LET j == Column(rows, name)
    IN  IF j = 0 \/ j > Len(rows[i]) THEN "" ELSE rows[i][j]

get_existing_receipts(rows) ==
    {<<NumericisedStr(RecordCell(rows, i, "Date")),
       NumericisedStr(RecordCell(rows, i, "Amount")),
       NumericisedStr(RecordCell(rows, i, "Vendor"))>> :
        i \in {n \in 2..Len(rows) :
                  /\ NumericisedTruthy(RecordCell(rows, n, "Date"))
                  /\ NumericisedTruthy(RecordCell(rows, n, "Amount"))
                  /\ NumericisedTruthy(RecordCell(rows, n, "Vendor"))}}

\* the text the sheet shows for a float amount held in cents: 3.0 shows as 3
CellOfAmount(c) == IF c % 100 = 0 THEN ToString(c \div 100) ELSE AmountStr(c)

\* the text the sheet shows for a string or None
CellOf(v) == IF v = None THEN "" ELSE v

\* the row append_receipt builds
ReceiptRow(receipt) ==
    <<CellOfAmount(receipt.amount), CellOf(Get(receipt, "date")), "",
      CellOf(Get(receipt, "vendor")), Join(receipt.category, ", ")>>

\* worksheet.append_row(row, table_range="A1")
append_receipt(rows, receipt) == Append(rows, ReceiptRow(receipt))

\* get_or_create_worksheet on a spreadsheet that exists: a missing worksheet
\* is added with the header row
get_or_create_worksheet(sheet, title) ==
    IF DictHas(sheet.sheets, title) THEN sheet
    ELSE [sheet EXCEPT !.sheets = DictSet(sheet.sheets, title, <<HEADER>>)]

\* the formats _parse_date tries, in its order
DATE_FORMATS == <<"%m/%d/%Y", "%Y-%m-%d", "%m/%d/%y">>

NoDate == [ok |-> FALSE, year |-> 0, month |-> 0]

\* datetime.strptime(date_str, fmt) for the date strings of the model; ok is
\* FALSE where it raises ValueError (%Y takes four digits, %y two, and nothing
\* may remain unconverted)
strptime(date_str, fmt) ==
    CASE fmt = "%m/%d/%Y" /\ date_str = "01/15/2026" ->
             [ok |-> TRUE, year |-> 2026, month |-> 1]
      [] fmt = "%m/%d/%Y" /\ date_str = "02/03/2026" ->
             [ok |-> TRUE, year |-> 2026, month |-> 2]
      [] fmt = "%Y-%m-%d" /\ date_str = "2026-01-15" ->
             [ok |-> TRUE, year |-> 2026, month |-> 1]
      [] fmt = "%m/%d/%y" /\ date_str = "01/15/26" ->
             [ok |-> TRUE, year |-> 2026, month |-> 1]
      [] OTHER -> NoDate

\* mutant: an unparseable date counts as a day of January 2026
_parse_date_defaults(date_str) ==
    IF ~Truthy(date_str) THEN NoDate
    ELSE IF \E i \in 1..Len(DATE_FORMATS) : strptime(date_str, DATE_FORMATS[i]).ok
    THEN strptime(date_str,
                  DATE_FORMATS[CHOOSE i \in 1..Len(DATE_FORMATS) :
                                   /\ strptime(date_str, DATE_FORMATS[i]).ok
                                   /\ \A k \in 1..(i - 1) :
                                          ~strptime(date_str, DATE_FORMATS[k]).ok])
    ELSE [ok |-> TRUE, year |-> 2026, month |-> 1]

\* _parse_date: None for a falsy string, else the result of the first format
\* that parses, None when none does
_parse_date(date_str) ==
    IF ~Truthy(date_str) THEN NoDate
    ELSE IF \E i \in 1..Len(DATE_FORMATS) : strptime(date_str, DATE_FORMATS[i]).ok
    THEN strptime(date_str,
                  DATE_FORMATS[CHOOSE i \in 1..Len(DATE_FORMATS) :
                                   /\ strptime(date_str, DATE_FORMATS[i]).ok
                                   /\ \A k \in 1..(i - 1) :
                                          ~strptime(date_str, DATE_FORMATS[k]).ok])
    ELSE NoDate

\* parsed_date.strftime("%B %Y")
worksheet_title(parsed) ==
    (CASE parsed.month = 1 -> "January"
       [] parsed.month = 2 -> "February"
       [] OTHER -> "") \o " " \o ToString(parsed.year)

\* (str(receipt.get("date")), str(receipt.get("amount")), str(receipt.get("vendor")))
receipt_key(receipt) ==
    <<Str(Get(receipt, "date")), AmountStr(receipt.amount), Str(Get(receipt, "vendor"))>>

(***************************************************************************)
(* SpecUpload: upload_to_sheets (main.py) and upload_to_google_sheets      *)
(* (app.py), one receipt per step, with every call to the spreadsheet      *)
(* service failing or not.                                                 *)
(***************************************************************************)
MaxUpload == 2

\* the call of one loop iteration that raises: none, client.open / worksheet
\* lookup, the header append of a new worksheet, get_all_records, append_row
Failures == {"none", "open", "header", "read", "append"}

\* receipts_to_upload, _ = _filter_excluded_receipts(receipts, print_warnings=False)
receipts_to_upload == _filter_excluded_receipts(results, FALSE).included

\* the worksheet of the title, as it is created when missing, cannot be opened
CannotOpen(sheet, title, fail) ==
    \/ ~sheet.exists
    \/ fail = "open"
    \/ fail = "header" /\ ~DictHas(sheet.sheets, title)

\* the spreadsheet after a get_or_create_worksheet that raised: add_worksheet
\* has run when it is the header append that failed
AfterFailedOpen(sheet, title, fail) ==
    IF sheet.exists /\ fail = "header" /\ ~DictHas(sheet.sheets, title)
    THEN [sheet EXCEPT !.sheets = DictSet(sheet.sheets, title, <<>>)]
    ELSE sheet

\* mutant: a worksheet whose records cannot be read counts as empty
upload_step_fail_open(receipt, sheet, cache, fail) ==
    LET date_str == Get(receipt, "date")
        title == worksheet_title(_parse_date(date_str))
        known == DictHas(cache, title)
    IN  IF ~Truthy(date_str) \/ ~_parse_date(date_str).ok
        THEN [sheet |-> sheet, cache |-> cache]
        ELSE IF ~known /\ CannotOpen(sheet, title, fail)
        THEN [sheet |-> AfterFailedOpen(sheet, title, fail), cache |-> cache]
        ELSE LET opened == IF known THEN sheet ELSE get_or_create_worksheet(sheet, title)
                 cached == IF known THEN cache
                           ELSE IF fail = "read" THEN DictSet(cache, title, {})
                           ELSE DictSet(cache, title,
                                    get_existing_receipts(DictGet(opened.sheets, title)))
                 existing_receipts == DictGet(cached, title)
             IN  IF receipt_key(receipt) \in existing_receipts \/ fail = "append"
                 THEN [sheet |-> opened, cache |-> cached]
                 ELSE [sheet |-> [opened EXCEPT !.sheets =
                                     DictSet(opened.sheets, title,
                                         append_receipt(DictGet(opened.sheets, title),
                                                        receipt))],
                       cache |-> DictSet(cached, title,
                                     existing_receipts \cup {receipt_key(receipt)})]

\* mutant: the key of an appended receipt is not added to the existing set
upload_step_forgets_key(receipt, sheet, cache, fail) ==
    LET date_str == Get(receipt, "date")
        title == worksheet_title(_parse_date(date_str))
        known == DictHas(cache, title)
    IN  IF ~Truthy(date_str) \/ ~_parse_date(date_str).ok
        THEN [sheet |-> sheet, cache |-> cache]
        ELSE IF ~known /\ CannotOpen(sheet, title, fail)
        THEN [sheet |-> AfterFailedOpen(sheet, title, fail), cache |-> cache]
        ELSE LET opened == IF known THEN sheet ELSE get_or_create_worksheet(sheet, title)
             IN  IF ~known /\ fail = "read"
                 THEN [sheet |-> opened, cache |-> cache]
                 ELSE LET cached == IF known THEN cache
                                    ELSE DictSet(cache, title,
                                             get_existing_receipts(
                                                 DictGet(opened.sheets, title)))
                          existing_receipts == DictGet(cached, title)
                      IN  IF receipt_key(receipt) \in existing_receipts \/ fail = "append"
                          THEN [sheet |-> opened, cache |-> cached]
                          ELSE [sheet |-> [opened EXCEPT !.sheets =
                                              DictSet(opened.sheets, title,
                                                  append_receipt(
                                                      DictGet(opened.sheets, title),
                                                      receipt))],
                                cache |-> cached]

\* one iteration of the upload loop for the receipt: the spreadsheet and the
\* worksheets dict after it.  A falsy or unparseable date skips the receipt; an
\* exception while the worksheet is opened or its records are read skips the
\* receipt and caches nothing; otherwise the receipt is appended unless its key
\* is in the worksheet's existing set, and the key is added once append_receipt
\* has returned
upload_step(receipt, sheet, cache, fail) ==
    LET date_str == Get(receipt, "date")
        title == worksheet_title(_parse_date(date_str))
        known == DictHas(cache, title)
    IN  IF ~Truthy(date_str) \/ ~_parse_date(date_str).ok
        THEN [sheet |-> sheet, cache |-> cache]
        ELSE IF ~known /\ CannotOpen(sheet, title, fail)
        THEN [sheet |-> AfterFailedOpen(sheet, title, fail), cache |-> cache]
        ELSE LET opened == IF known THEN sheet ELSE get_or_create_worksheet(sheet, title)
             IN  IF ~known /\ fail = "read"
                 THEN [sheet |-> opened, cache |-> cache]
                 ELSE LET cached == IF known THEN cache
                                    ELSE DictSet(cache, title,
                                             get_existing_receipts(
                                                 DictGet(opened.sheets, title)))
                          existing_receipts == DictGet(cached, title)
                      IN  IF receipt_key(receipt) \in existing_receipts \/ fail = "append"
                          THEN [sheet |-> opened, cache |-> cached]
                          ELSE [sheet |-> [opened EXCEPT !.sheets =
                                              DictSet(opened.sheets, title,
                                                  append_receipt(
                                                      DictGet(opened.sheets, title),
                                                      receipt))],
                                cache |-> DictSet(cached, title,
                                              existing_receipts
                                                  \cup {receipt_key(receipt)})]

\* receipts of January (three date formats) and February, with an unparseable
\* and an empty date, and an excluded one
UploadReceipts ==
    {Rcpt(Absent, "r1", 1250, d, "Cafe", <<"Groceries">>, FALSE, Absent) :
        d \in {"01/15/2026", "2026-01-15", "01/15/26", "soon", ""}}
    \cup {Rcpt(Absent, "r2", 300, "02/03/2026", "Target", <<"Groceries">>, FALSE, Absent),
          Rcpt(Absent, "r1", 1250, "01/15/2026", "Cafe", <<"Groceries">>, TRUE, Absent)}

JanuaryRows ==
    <<HEADER, <<"12.5", "01/15/2026", "", "Cafe", "Groceries">>>>
FebruaryRows ==
    <<HEADER, <<"3", "02/03/2026", "", "Target", "Groceries">>>>

\* the spreadsheet before the upload: missing, without worksheets, with the
\* worksheets earlier uploads have written
UploadSheets ==
    {NoSpreadsheet,
     [exists |-> TRUE, sheets |-> <<>>],
     [exists |-> TRUE, sheets |-> <<[k |-> "January 2026", v |-> JanuaryRows]>>],
     [exists |-> TRUE, sheets |-> <<[k |-> "January 2026", v |-> JanuaryRows],
                                    [k |-> "February 2026", v |-> FebruaryRows]>>]}

InitUpload ==
    /\ results \in SeqsUpTo(UploadReceipts, MaxUpload)
    /\ spreadsheet \in UploadSheets
    /\ pc = "u_start"
    /\ disk = MissingFile
    /\ dir = NoFiles
    /\ args = NoArgs
    /\ state = EmptyState
    /\ to_process = <<>>
    /\ idx = 0
    /\ pending = <<>>
    /\ worksheets = <<>>
    /\ duplicates_found = <<>>
    /\ new_receipts = <<>>
    /\ hist = [HistInit EXCEPT !.sheet0 = spreadsheet]

\* get_gspread_client() raises: the upload returns
UploadAuthFail ==
    /\ pc = "u_start"
    /\ pc' = "u_done"
    /\ hist' = [hist EXCEPT !.auth = FALSE]
    /\ UNCHANGED <<disk, dir, args, state, to_process, idx, results, pending>>
    /\ UNCHANGED sheetvars

\* the client is authenticated; worksheets = {} and the loop starts
UploadBegin ==
    /\ pc = "u_start"
    /\ pc' = "u_loop"
    /\ worksheets' = <<>>
    /\ idx' = 1
    /\ UNCHANGED <<disk, dir, args, state, to_process, results, pending, hist>>
    /\ UNCHANGED <<spreadsheet, duplicates_found, new_receipts>>

\* one iteration of the loop over receipts_to_upload
UploadReceipt ==
    /\ pc = "u_loop"
    /\ idx <= Len(receipts_to_upload)
    /\ \E fail \in Failures :
           LET r == upload_step(receipts_to_upload[idx], spreadsheet, worksheets, fail)
           IN  /\ spreadsheet' = r.sheet
               /\ worksheets' = r.cache
               /\ hist' = [hist EXCEPT !.steps =
                               Append(hist.steps, [fail |-> fail, before |-> spreadsheet,
                                                   after |-> r.sheet])]
    /\ idx' = idx + 1
    /\ UNCHANGED <<disk, dir, pc, args, state, to_process, results, pending>>
    /\ UNCHANGED <<duplicates_found, new_receipts>>

\* the loop is over: the count is reported
UploadDone ==
    /\ pc = "u_loop"
    /\ idx > Len(receipts_to_upload)
    /\ pc' = "u_done"
    /\ UNCHANGED <<disk, dir, args, state, to_process, idx, results, pending, hist>>
    /\ UNCHANGED sheetvars

NextUpload == UploadAuthFail \/ UploadBegin \/ UploadReceipt \/ UploadDone

SpecUpload == InitUpload /\ [][NextUpload]_vars

\* what the history of an upload shows about its i-th handled receipt
StepReceipt(i) == receipts_to_upload[i]
StepKey(i) == receipt_key(StepReceipt(i))
StepTitle(i) == worksheet_title(_parse_date(Get(StepReceipt(i), "date")))

\* the receipt has a date that parses, hence a worksheet
HasWorksheet(i) ==
    /\ Truthy(Get(StepReceipt(i), "date"))
    /\ _parse_date(Get(StepReceipt(i), "date")).ok

\* the earlier receipts of the same worksheet
SameSheetBefore(i) == {j \in 1..(i - 1) : HasWorksheet(j) /\ StepTitle(j) = StepTitle(i)}

\* no call that opens the worksheet or reads its records fails in step i
CanRead(i) ==
    LET st == hist.steps[i]
    IN  /\ HasWorksheet(i)
        /\ st.before.exists
        /\ st.fail \notin {"open", "read"}
        /\ ~(st.fail = "header" /\ ~DictHas(st.before.sheets, StepTitle(i)))

\* the duplicate status of receipt i cannot be determined: its worksheet has not
\* been read earlier in the upload and cannot be opened or read now
Undetermined(i) ==
    /\ HasWorksheet(i)
    /\ \A j \in SameSheetBefore(i) : ~CanRead(j)
    /\ ~CanRead(i)

WorksheetTitles == {"January 2026", "February 2026"}

\* the rows of a worksheet other than header rows
DataRowsOf(sheet, title) ==
    LET IsData(row) == row # HEADER
    IN  IF DictHas(sheet.sheets, title)
        THEN SelectSeq(DictGet(sheet.sheets, title), IsData)
        ELSE <<>>

\* step i has left the receipt rows of every worksheet as they were
NothingAppended(i) ==
    \A t \in WorksheetTitles :
        DataRowsOf(hist.steps[i].after, t) = DataRowsOf(hist.steps[i].before, t)

\* step i has added the row of its receipt to its worksheet and nothing else
AppendedAt(i) ==
    /\ HasWorksheet(i)
    /\ \A t \in WorksheetTitles :
           DataRowsOf(hist.steps[i].after, t) =
               IF t = StepTitle(i)
               THEN Append(DataRowsOf(hist.steps[i].before, t), ReceiptRow(StepReceipt(i)))
               ELSE DataRowsOf(hist.steps[i].before, t)

\* the step of the upload at which the worksheet of receipt i was read
ReadStep(i) ==
    CHOOSE j \in SameSheetBefore(i) \cup {i} :
        /\ CanRead(j)
        /\ \A k \in SameSheetBefore(i) : k < j => ~CanRead(k)

\* the existing-key set of the worksheet of receipt i when step i looks at it:
\* the keys of the rows the worksheet held when it was read, and the keys of
\* the receipts appended to it since
ExistingAt(i) ==
    LET b == hist.steps[ReadStep(i)].before
        rows == IF DictHas(b.sheets, StepTitle(i))
                THEN DictGet(b.sheets, StepTitle(i)) ELSE <<HEADER>>
    IN  get_existing_receipts(rows)
        \cup {StepKey(k) : k \in {n \in SameSheetBefore(i) :
                                     n >= ReadStep(i) /\ AppendedAt(n)}}

\* C13: no upload proceeds for a receipt whose duplicate status could not be
\* determined: when authentication fails nothing is appended; when the worksheet
\* of a receipt cannot be opened or its records cannot be read the receipt is not
\* appended; and the other receipts are still handled, each being appended
\* unless its key is already held or its own append fails.
C13_FailClosed ==
    /\ pc = "u_done" /\ ~hist.auth => spreadsheet = hist.sheet0 /\ hist.steps = <<>>
    /\ \A i \in 1..Len(hist.steps) : Undetermined(i) => NothingAppended(i)
    /\ pc = "u_done" /\ hist.auth =>
           /\ Len(hist.steps) = Len(receipts_to_upload)
           /\ \A i \in 1..Len(hist.steps) :
                  /\ HasWorksheet(i)
                  /\ ~Undetermined(i)
                  /\ hist.steps[i].fail # "append"
                  /\ StepKey(i) \notin ExistingAt(i)
                  => AppendedAt(i)

C13_Witness ==
    /\ pc = "u_done"
    /\ hist.auth
    /\ Len(hist.steps) = 2
    /\ Undetermined(1)
    /\ hist.steps[1].fail = "read"
    /\ hist.steps[1].before.exists
    /\ StepTitle(2) # StepTitle(1)
    /\ AppendedAt(2)

\* C14 as stated: a receipt whose worksheet's existing-key set is available is
\* appended if and only if its key is not in that set.
C14_Original ==
    \A i \in 1..Len(hist.steps) :
        HasWorksheet(i) /\ ~Undetermined(i) =>
            (AppendedAt(i) <=> StepKey(i) \notin ExistingAt(i))

\* C14 (amended): a receipt whose worksheet's existing-key set is available is
\* appended if and only if its key is not in that set and the append call does
\* not fail, the set being the keys read from the worksheet once in the upload
\* extended with every key appended since; a receipt that is not appended
\* leaves the receipt rows unchanged; hence no receipt whose key is already
\* held is appended and each distinct key is appended at most once per upload.
C14_AppendIffNew ==
    /\ \A i \in 1..Len(hist.steps) :
           /\ HasWorksheet(i) /\ ~Undetermined(i) =>
                  (AppendedAt(i) <=>
                       StepKey(i) \notin ExistingAt(i) /\ hist.steps[i].fail # "append")
           /\ ~AppendedAt(i) => NothingAppended(i)
    /\ \A i, j \in 1..Len(hist.steps) :
           AppendedAt(i) /\ AppendedAt(j) /\ i # j => StepKey(i) # StepKey(j)

C14_Witness ==
    /\ pc = "u_done"
    /\ Len(hist.steps) = 2
    /\ AppendedAt(1)
    /\ StepKey(2) = StepKey(1)
    /\ hist.steps[2].fail = "none"
    /\ NothingAppended(2)
    /\ DictHas(hist.sheet0.sheets, "January 2026")
    /\ StepTitle(1) = "January 2026"

(***************************************************************************)
(* SpecDup: the duplicate lookup of the web app, check_for_duplicates over *)
(* check_receipts_for_duplicates and get_all_existing_receipts, and the    *)
(* receipts the app then offers for upload.                                *)
(***************************************************************************)

\* mutant: only the first worksheet is read
get_all_existing_receipts_first(sheet, open, unreadable) ==
    IF open = "error" THEN [raised |-> TRUE, value |-> {}]
    ELSE IF ~sheet.exists \/ sheet.sheets = <<>> THEN [raised |-> FALSE, value |-> {}]
    ELSE [raised |-> FALSE,
          value |-> IF sheet.sheets[1].k \in unreadable THEN {}
                    ELSE get_existing_receipts(sheet.sheets[1].v)]

\* get_all_existing_receipts: a spreadsheet that is not found gives the empty
\* set, any other failure of client.open or spreadsheet.worksheets() is raised,
\* a worksheet whose records cannot be read is skipped
get_all_existing_receipts(sheet, open, unreadable) ==
    IF open = "error" THEN [raised |-> TRUE, value |-> {}]
    ELSE IF ~sheet.exists THEN [raised |-> FALSE, value |-> {}]
    ELSE [raised |-> FALSE,
          value |-> UNION {get_existing_receipts(sheet.sheets[i].v) :
                              i \in {n \in 1..Len(sheet.sheets) :
                                        sheet.sheets[n].k \notin unreadable}}]

\* mutant: the two ISO and US spellings of a date are one key
duplicate_key_reparsed(receipt) ==
    <<IF GetOr(receipt, "date", "") = "2026-01-15" THEN "01/15/2026"
      ELSE Str(GetOr(receipt, "date", "")),
      AmountStr(receipt.amount), Str(GetOr(receipt, "vendor", ""))>>

\* (str(receipt.get("date", "")), str(receipt.get("amount", "")),
\*  str(receipt.get("vendor", "")))
duplicate_key(receipt) ==
    <<Str(GetOr(receipt, "date", "")), AmountStr(receipt.amount),
      Str(GetOr(receipt, "vendor", ""))>>

check_receipts_for_duplicates(sheet, receipts, open, unreadable) ==
    LET existing == get_all_existing_receipts(sheet, open, unreadable)
        IsDuplicate(receipt) == duplicate_key(receipt) \in existing.value
    IN  IF existing.raised THEN [raised |-> TRUE, value |-> <<>>]
        ELSE [raised |-> FALSE, value |-> SelectSeq(receipts, IsDuplicate)]

\* mutant: the exception of the lookup reaches the caller
check_for_duplicates_propagates(receipts, sheet, auth, open, unreadable) ==
    IF ~auth THEN [raised |-> TRUE, value |-> <<>>]
    ELSE check_receipts_for_duplicates(sheet, receipts, open, unreadable)

\* check_for_duplicates of the web app: [] on any exception
check_for_duplicates(receipts, sheet, auth, open, unreadable) ==
    IF ~auth THEN [raised |-> FALSE, value |-> <<>>]
    ELSE LET found == check_receipts_for_duplicates(sheet, receipts, open, unreadable)
         IN  IF found.raised THEN [raised |-> FALSE, value |-> <<>>] ELSE found

\* existing_keys and new_receipts of the web app: the valid receipts whose key
\* is not the key of a duplicate found
offered_receipts(valid_receipts, duplicates) ==
    LET existing_keys == {receipt_key(duplicates[i]) : i \in 1..Len(duplicates)}
        IsNew(r) == receipt_key(r) \notin existing_keys
    IN  SelectSeq(valid_receipts, IsNew)

\* valid receipts as process_receipts returns them: the keys date, amount and
\* vendor are always there, the date may be None
DupReceipts ==
    {Rcpt("h1", "r1", 1250, d, "Cafe", <<"Groceries">>, FALSE, "a.jpg") :
        d \in {"01/15/2026", "2026-01-15", None}}
    \cup {Rcpt("h2", "r2", a, "02/03/2026", "Target", <<"Groceries">>, FALSE, "b.jpg") :
             a \in {300, 1999}}

\* a worksheet whose amounts show two decimals, with a zero amount and a row
\* without a date
JanuaryRowsFormatted ==
    <<HEADER, <<"12.50", "2026-01-15", "", "Cafe", "Groceries">>,
      <<"0.00", "01/15/2026", "", "Cafe", "">>,
      <<"12.5", "", "", "Cafe", "Groceries">>>>
FebruaryRowsTwo ==
    <<HEADER, <<"19.99", "02/03/2026", "", "Target", "Groceries">>,
      <<"3", "02/03/2026", "", "Target", "Groceries">>>>

DupSheets ==
    {NoSpreadsheet,
     [exists |-> TRUE, sheets |-> <<>>],
     [exists |-> TRUE, sheets |-> <<[k |-> "January 2026", v |-> JanuaryRows]>>],
     [exists |-> TRUE, sheets |-> <<[k |-> "January 2026", v |-> JanuaryRowsFormatted]>>],
     [exists |-> TRUE, sheets |-> <<[k |-> "January 2026", v |-> JanuaryRows],
                                    [k |-> "February 2026", v |-> FebruaryRowsTwo]>>],
     [exists |-> TRUE, sheets |-> <<[k |-> "January 2026", v |-> JanuaryRowsFormatted],
                                    [k |-> "February 2026", v |-> FebruaryRowsTwo]>>]}

InitDup ==
    /\ results \in SeqsUpTo(DupReceipts, MaxLen)
    /\ spreadsheet \in DupSheets
    /\ pc = "h_start"
    /\ disk = MissingFile
    /\ dir = NoFiles
    /\ args = NoArgs
    /\ state = EmptyState
    /\ to_process = <<>>
    /\ idx = 0
    /\ pending = <<>>
    /\ worksheets = <<>>
    /\ duplicates_found = <<>>
    /\ new_receipts = <<>>
    /\ hist = HistInit

\* duplicates = check_for_duplicates(valid_receipts);
\* st.session_state.duplicates_found = duplicates
HCheck ==
    /\ pc = "h_start"
    /\ \E auth \in BOOLEAN, open \in {"ok", "error"},
          unreadable \in SUBSET DictKeys(spreadsheet.sheets) :
           LET found == check_for_duplicates(results, spreadsheet, auth, open, unreadable)
               existing == get_all_existing_receipts(spreadsheet, open, unreadable)
           IN  /\ pc' = IF found.raised THEN "h_raised" ELSE "h_checked"
               /\ duplicates_found' = found.value
               /\ hist' = [hist EXCEPT !.check =
                               [auth |-> auth, open |-> open, unreadable |-> unreadable,
                                raised |-> found.raised,
                                existing |-> IF auth THEN existing.value ELSE {}]]
    /\ UNCHANGED <<disk, dir, args, state, to_process, idx, results, pending>>
    /\ UNCHANGED <<spreadsheet, worksheets, new_receipts>>

\* the receipts offered for upload
HOffer ==
    /\ pc = "h_checked"
    /\ pc' = "h_offered"
    /\ new_receipts' = offered_receipts(results, duplicates_found)
    /\ UNCHANGED <<disk, dir, args, state, to_process, idx, results, pending, hist>>
    /\ UNCHANGED <<spreadsheet, worksheets, duplicates_found>>

NextDup == HCheck \/ HOffer

SpecDup == InitDup /\ [][NextDup]_vars

\* the lookup read the spreadsheet: get_gspread_client and client.open returned
LookupRan ==
    /\ pc \in {"h_checked", "h_offered"}
    /\ hist.check.auth
    /\ hist.check.open = "ok"

\* the receipt is one of the duplicates found
Found(r) == \E i \in 1..Len(duplicates_found) : duplicates_found[i] = r

\* C15: the duplicates found are, in input order, precisely the receipts whose
\* (str(date), str(amount), str(vendor)) triple is an element of the
\* existing-key set, compared as strings, and the receipts offered for upload
\* are, in input order, precisely the receipts that are not among them.
C15_DuplicateSplit ==
    LET Held(r) == <<Str(r.date), AmountStr(r.amount), Str(r.vendor)>>
                       \in hist.check.existing
        Rest(r) == ~Found(r)
    IN  /\ LookupRan => duplicates_found = SelectSeq(results, Held)
        /\ pc = "h_offered" => new_receipts = SelectSeq(results, Rest)

C15_Witness ==
    /\ pc = "h_offered"
    /\ LookupRan
    /\ Len(results) = 3
    /\ results[1].amount = 300
    /\ <<"02/03/2026", "3", "Target">> \in hist.check.existing
    /\ results[2].date = "2026-01-15"
    /\ <<"01/15/2026", "12.5", "Cafe">> \in hist.check.existing
    /\ results[3].date = "01/15/2026"
    /\ duplicates_found = <<results[3]>>
    /\ new_receipts = <<results[1], results[2]>>

\* the triples of all records of a worksheet: one per row under the first
RecordTriples(rows) ==
    {<<NumericisedStr(RecordCell(rows, i, "Date")),
       NumericisedStr(RecordCell(rows, i, "Amount")),
       NumericisedStr(RecordCell(rows, i, "Vendor"))>> : i \in 2..Len(rows)}

KeptTriples ==
    {t \in UNION {RecordTriples(spreadsheet.sheets[i].v) :
                     i \in {n \in 1..Len(spreadsheet.sheets) :
                               spreadsheet.sheets[n].k \notin hist.check.unreadable}} :
        \A k \in 1..3 : t[k] \notin {"", "0", "0.0"}}

CannotReconcile ==
    \/ ~hist.check.auth
    \/ hist.check.open = "error"
    \/ ~spreadsheet.exists

\* C17: check_for_duplicates never lets an exception reach its caller; when
\* the lookup cannot reach the spreadsheet (authentication fails, the
\* spreadsheet is missing, client.open fails) the duplicate list is empty and
\* every receipt is shown as new.
C17_LookupTolerant ==
    /\ pc # "h_raised"
    /\ ~hist.check.raised
    /\ pc \in {"h_checked", "h_offered"} /\ CannotReconcile => duplicates_found = <<>>
    /\ pc = "h_offered" /\ CannotReconcile => new_receipts = results

C17_Witness ==
    /\ pc = "h_offered"
    /\ ~hist.check.auth
    /\ spreadsheet.exists
    /\ Len(spreadsheet.sheets) = 1
    /\ Len(results) = 1
    /\ receipt_key(results[1]) \in get_existing_receipts(spreadsheet.sheets[1].v)
    /\ duplicates_found = <<>>
    /\ new_receipts = results

(***************************************************************************)
(* SpecProcess: process_receipts of the web app, one uploaded file per     *)
(* step, the extraction returning a record or raising.                     *)
(***************************************************************************)

\* what extract_receipt_from_bytes returns for a receipt image
ValidExtract ==
    [isValidReceipt |-> TRUE, validationError |-> "", id |-> "r1", amount |-> 1250,
     date |-> "01/15/2026", vendor |-> "Cafe", category |-> <<"Groceries">>,
     excludeFromTable |-> FALSE]

\* and for an image that is not a receipt
NotAReceiptExtract ==
    [isValidReceipt |-> FALSE, validationError |-> "Not a receipt image", id |-> "",
     amount |-> 0, date |-> "", vendor |-> "", category |-> <<>>,
     excludeFromTable |-> FALSE]

\* how the extraction of one file ends: it returns a record, or raises an
\* exception with a message
ExtractOutcomes ==
    {[raises |-> FALSE, msg |-> "", receipt |-> r] : r \in {ValidExtract, NotAReceiptExtract}}
    \cup {[raises |-> TRUE, msg |-> m, receipt |-> NotAReceiptExtract] :
             m \in {"API error", "rate limited"}}

\* the record the except branch appends
SyntheticRecord(filename, msg) ==
    [source_file |-> filename, isValidReceipt |-> FALSE,
     validationError |-> "Processing error: " \o msg, id |-> "", amount |-> 0,
     date |-> "", vendor |-> "", category |-> <<>>, excludeFromTable |-> FALSE]

\* mutant: a file whose extraction raises leaves no record (as in the command
\* line loop)
process_file_skips(out, file, outcome) ==
    IF outcome.raises THEN out
    ELSE Append(out, [source_file |-> file.filename, source_hash |-> file.hash]
                         @@ outcome.receipt)

\* the body of the loop of process_receipts: the record of the extraction with
\* the file's name and hash, or the synthetic record when anything raised
process_file(out, file, outcome) ==
    IF outcome.raises THEN Append(out, SyntheticRecord(file.filename, outcome.msg))
    ELSE Append(out, [source_file |-> file.filename, source_hash |-> file.hash]
                         @@ outcome.receipt)

\* files_to_process: a dict filename -> (bytes, mime type), the bytes standing
\* as their digest; no filename twice
UploadedFiles ==
    {f \in SeqsUpTo([filename : {"a.jpg", "B.PNG", "d.png"}, hash : Hashes], MaxLen) :
        \A i, j \in 1..Len(f) : i # j => f[i].filename # f[j].filename}

InitProcess ==
    /\ to_process \in UploadedFiles
    /\ pc = "p_start"
    /\ results = <<>>
    /\ disk = MissingFile
    /\ dir = NoFiles
    /\ args = NoArgs
    /\ state = EmptyState
    /\ idx = 0
    /\ pending = <<>>
    /\ spreadsheet = NoSpreadsheet
    /\ worksheets = <<>>
    /\ duplicates_found = <<>>
    /\ new_receipts = <<>>
    /\ hist = HistInit

\* exclusion_criteria = load_exclusion_criteria(), which returns a string
\* whatever the state of the criteria file; results = []
ProcessBegin ==
    /\ pc = "p_start"
    /\ pc' = "p_loop"
    /\ results' = <<>>
    /\ idx' = 1
    /\ UNCHANGED <<disk, dir, args, state, to_process, pending, hist>>
    /\ UNCHANGED sheetvars

\* one iteration of the loop over files_to_process.items()
ProcessFile ==
    /\ pc = "p_loop"
    /\ idx <= Len(to_process)
    /\ \E outcome \in ExtractOutcomes :
           /\ results' = process_file(results, to_process[idx], outcome)
           /\ hist' = [hist EXCEPT !.outcomes = Append(hist.outcomes, outcome)]
    /\ idx' = idx + 1
    /\ UNCHANGED <<disk, dir, pc, args, state, to_process, pending>>
    /\ UNCHANGED sheetvars

\* return results
ProcessReturn ==
    /\ pc = "p_loop"
    /\ idx > Len(to_process)
    /\ pc' = "p_done"
    /\ UNCHANGED <<disk, dir, args, state, to_process, idx, results, pending, hist>>
    /\ UNCHANGED sheetvars

NextProcess == ProcessBegin \/ ProcessFile \/ ProcessReturn

SpecProcess == InitProcess /\ [][NextProcess]_vars

\* C18: process_receipts returns exactly one record per input file, in input
\* order; a file whose extraction raises yields the synthetic record with
\* isValidReceipt false and a validationError carrying the error message, a
\* file whose extraction returns yields the returned record with the file's
\* name and hash, and the files after a failing one are still processed.
C18_OneRecordPerFile ==
    /\ pc = "p_loop" => Len(results) = idx - 1 /\ Len(hist.outcomes) = idx - 1
    /\ pc = "p_done" => Len(results) = Len(to_process)
                        /\ Len(hist.outcomes) = Len(to_process)
    /\ pc \in {"p_loop", "p_done"} =>
           \A i \in 1..Len(results) :
               /\ i <= Len(to_process)
               /\ i <= Len(hist.outcomes)
               /\ results[i].source_file = to_process[i].filename
               /\ hist.outcomes[i].raises =>
                      /\ results[i].isValidReceipt = FALSE
                      /\ results[i].validationError =
                             "Processing error: " \o hist.outcomes[i].msg
               /\ ~hist.outcomes[i].raises =>
                      /\ results[i].source_hash = to_process[i].hash
                      /\ results[i].isValidReceipt = hist.outcomes[i].receipt.isValidReceipt
                      /\ results[i].vendor = hist.outcomes[i].receipt.vendor
                      /\ results[i].amount = hist.outcomes[i].receipt.amount

C18_Witness ==
    /\ pc = "p_done"
    /\ Len(to_process) = 3
    /\ Len(results) = 3
    /\ hist.outcomes[1].raises
    /\ results[1].validationError = "Processing error: API error"
    /\ ~hist.outcomes[2].raises
    /\ results[2].isValidReceipt
    /\ results[2].source_file = to_process[2].filename
    /\ hist.outcomes[3].raises
    /\ results[3].validationError = "Processing error: rate limited"

(***************************************************************************)
(* SpecRepair: fix_google_sheets over fix_all_worksheets, one worksheet    *)
(* per step, with every call to the spreadsheet service failing or not.    *)
(***************************************************************************)
MaxRows == 3

\* str.strip() on the cell texts of the model
Strip(cell) == IF cell = " " THEN "" ELSE cell

\* not any(cell.strip() for cell in row)
IsBlankRow(row) == \A j \in 1..Len(row) : Strip(row[j]) = ""

\* row[:5]
FirstFive(row) == SubSeq(row, 1, IF Len(row) < 5 THEN Len(row) ELSE 5)

\* float(amount_str.replace(",", ".")) returns, for the cell texts of the model
ParsesAsFloat(amount_str) == amount_str \in {"12.5", "3", "17,81"}

\* the index of the first cell of a row that is not blank
start_idx(row) ==
    CHOOSE i \in 1..Len(row) :
        /\ Strip(row[i]) # ""
        /\ \A k \in 1..(i - 1) : Strip(row[k]) = ""

\* row[start_idx : start_idx + 5], padded with empty strings to 5 cells
data_slice(row) ==
    [j \in 1..5 |-> IF start_idx(row) + j - 1 <= Len(row)
                    THEN row[start_idx(row) + j - 1] ELSE ""]

\* the rows extract_receipts_from_misaligned_worksheet returns for the values
\* of a worksheet
extract_receipts_from_misaligned_worksheet(all_values) ==
    LET Kept(row) ==
            /\ ~IsBlankRow(row)
            /\ FirstFive(row) # HEADER
            /\ ParsesAsFloat(Strip(data_slice(row)[1]))
        kept == SelectSeq(all_values, Kept)
    IN  [i \in 1..Len(kept) |-> data_slice(kept[i])]

\* the call of one worksheet's repair that raises: none, row_values (inside
\* has_valid_headers), get_all_values, clear, the header append, a row append
RepairFailures == {"none", "headers", "read", "clear", "header", "append"}

\* has_valid_headers: False when the first row is empty, differs from the
\* header, or cannot be read
has_valid_headers(rows, fail) ==
    /\ fail # "headers"
    /\ Len(rows) >= 1
    /\ ~IsBlankRow(rows[1])
    /\ FirstFive(rows[1]) = HEADER

ClearWrite == [op |-> "clear", row |-> <<>>]
AppendWrite(row) == [op |-> "append", row |-> row]

\* fix_misaligned_worksheet: whether it raised, the rows of the worksheet
\* after it, the writes it made and the count it returns
fix_misaligned_worksheet(rows, fail) ==
    LET extracted_rows == extract_receipts_from_misaligned_worksheet(rows)
        header_writes == <<ClearWrite, AppendWrite(HEADER)>>
    IN  IF fail = "read"
        THEN [raised |-> TRUE, rows |-> rows, writes |-> <<>>, count |-> 0]
        ELSE IF extracted_rows = <<>> /\ has_valid_headers(rows, fail)
        THEN [raised |-> FALSE, rows |-> rows, writes |-> <<>>, count |-> 0]
        ELSE IF fail = "clear"
        THEN [raised |-> TRUE, rows |-> rows, writes |-> <<>>, count |-> 0]
        ELSE IF fail = "header"
        THEN [raised |-> TRUE, rows |-> <<>>, writes |-> <<ClearWrite>>, count |-> 0]
        ELSE IF extracted_rows = <<>>
        THEN [raised |-> FALSE, rows |-> <<HEADER>>, writes |-> header_writes, count |-> 0]
        ELSE IF fail = "append"
        THEN [raised |-> TRUE, rows |-> <<HEADER>>, writes |-> header_writes, count |-> 0]
        ELSE [raised |-> FALSE, rows |-> <<HEADER>> \o extracted_rows,
              writes |-> header_writes \o
                         [i \in 1..Len(extracted_rows) |-> AppendWrite(extracted_rows[i])],
              count |-> Len(extracted_rows)]

\* one iteration of the loop of fix_all_worksheets: a worksheet with valid
\* headers is skipped with count 0, any other is handed to
\* fix_misaligned_worksheet
fix_worksheet(rows, fail) ==
    IF has_valid_headers(rows, fail)
    THEN [raised |-> FALSE, rows |-> rows, writes |-> <<>>, count |-> 0]
    ELSE fix_misaligned_worksheet(rows, fail)

\* rows of a worksheet: the header, an aligned receipt, a receipt shifted by
\* two columns, a receipt shifted by five with a decimal comma and no further
\* cells, a row that is not led by a number, a blank row
RepairRows ==
    {HEADER,
     <<"12.5", "01/15/2026", "", "Cafe", "Groceries">>,
     <<"", "", "3", "02/03/2026", "", "Target", "Groceries">>,
     <<"", "", "", "", "", "17,81", "01/15/2026">>,
     <<"", "Total", "x">>,
     <<"", " ">>}

InitRepair ==
    /\ \E rows \in SeqsUpTo(RepairRows, MaxRows) :
           spreadsheet \in
               {[exists |-> TRUE, sheets |-> <<[k |-> "January 2026", v |-> rows]>>],
                [exists |-> TRUE, sheets |-> <<[k |-> "January 2026", v |-> rows],
                                               [k |-> "February 2026",
                                                v |-> FebruaryRows]>>]}
    /\ pc = "r_start"
    /\ results = <<>>
    /\ idx = 0
    /\ disk = MissingFile
    /\ dir = NoFiles
    /\ args = NoArgs
    /\ state = EmptyState
    /\ to_process = <<>>
    /\ pending = <<>>
    /\ worksheets = <<>>
    /\ duplicates_found = <<>>
    /\ new_receipts = <<>>
    /\ hist = [HistInit EXCEPT !.sheet0 = spreadsheet]

\* get_gspread_client or client.open raises: fix_google_sheets prints the
\* error and returns
RepairCannotOpen ==
    /\ pc = "r_start"
    /\ pc' = "r_failed"
    /\ UNCHANGED <<disk, dir, args, state, to_process, idx, results, pending, hist>>
    /\ UNCHANGED sheetvars

\* spreadsheet = client.open(SPREADSHEET_NAME); results = {}
RepairBegin ==
    /\ pc = "r_start"
    /\ spreadsheet.exists
    /\ pc' = "r_loop"
    /\ results' = <<>>
    /\ idx' = 1
    /\ UNCHANGED <<disk, dir, args, state, to_process, pending, hist>>
    /\ UNCHANGED sheetvars

\* one iteration of the loop over spreadsheet.worksheets()
RepairWorksheet ==
    /\ pc = "r_loop"
    /\ idx <= Len(spreadsheet.sheets)
    /\ \E fail \in RepairFailures :
           LET name == spreadsheet.sheets[idx].k
               r == fix_worksheet(spreadsheet.sheets[idx].v, fail)
           IN  /\ spreadsheet' = [spreadsheet EXCEPT !.sheets[idx].v = r.rows]
               /\ hist' = [hist EXCEPT !.writes =
                               hist.writes \o
                               [i \in 1..Len(r.writes) |->
                                   [title |-> name, op |-> r.writes[i].op,
                                    row |-> r.writes[i].row]]]
               /\ pc' = IF r.raised THEN "r_failed" ELSE "r_loop"
               /\ results' = IF r.raised THEN results ELSE DictSet(results, name, r.count)
    /\ idx' = idx + 1
    /\ UNCHANGED <<disk, dir, args, state, to_process, pending>>
    /\ UNCHANGED <<worksheets, duplicates_found, new_receipts>>

\* return results
RepairReturn ==
    /\ pc = "r_loop"
    /\ idx > Len(spreadsheet.sheets)
    /\ pc' = "r_done"
    /\ UNCHANGED <<disk, dir, args, state, to_process, idx, results, pending, hist>>
    /\ UNCHANGED sheetvars

NextRepair == RepairCannotOpen \/ RepairBegin \/ RepairWorksheet \/ RepairReturn

SpecRepair == InitRepair /\ [][NextRepair]_vars

\* the worksheet is aligned: the canonical header in row 1 and under it only
\* rows whose first cell holds a number
Aligned(rows) ==
    /\ Len(rows) >= 1
    /\ rows[1] = HEADER
    /\ \A i \in 2..Len(rows) : ParsesAsFloat(rows[i][1])

\* C19: the repair performs no write (no clear, no append) on a worksheet that
\* is already aligned when it runs.
C19_Idempotent ==
    \A i \in 1..Len(hist.sheet0.sheets) :
        Aligned(hist.sheet0.sheets[i].v) =>
            \A w \in 1..Len(hist.writes) :
                hist.writes[w].title # hist.sheet0.sheets[i].k

\* the first non-blank cell of the row holds a number
NumericLed(row) == ~IsBlankRow(row) /\ ParsesAsFloat(Strip(row[start_idx(row)]))

\* the worksheet contains a misaligned row: one whose first cell is blank and
\* that is not blank altogether
ContainsMisaligned(rows) ==
    \E i \in 1..Len(rows) : ~IsBlankRow(rows[i]) /\ Strip(rows[i][1]) = ""

\* the numeric-led rows of the worksheet, in their order, each as the 5 cells
\* from its first non-blank cell
Realigned(rows) ==
    LET led == SelectSeq(rows, NumericLed)
    IN  [i \in 1..Len(led) |->
            [j \in 1..5 |-> IF start_idx(led[i]) + j - 1 <= Len(led[i])
                            THEN led[i][start_idx(led[i]) + j - 1] ELSE ""]]

\* C20: after the repair, a worksheet that contained misaligned rows consists
\* of the canonical header row followed by exactly its numeric-led rows, each
\* as the 5 cells from its first non-blank cell, in their original order.
C20_RepairResult ==
    pc = "r_done" =>
        \A i \in 1..Len(hist.sheet0.sheets) :
            ContainsMisaligned(hist.sheet0.sheets[i].v) =>
                spreadsheet.sheets[i].v = <<HEADER>> \o Realigned(hist.sheet0.sheets[i].v)

\* the month and year a date string of the model names under month/day/year,
\* year-month-day or month/day/2-digit-year, "" when it names none
MonthYear(date_str) ==
    CASE date_str \in {"01/15/2026", "2026-01-15", "01/15/26"} -> "January 2026"
      [] date_str = "02/03/2026" -> "February 2026"
      [] OTHER -> ""

\* C21: each step of an upload changes the receipt rows of no worksheet other
\* than the one named after the month and year of its receipt's date, and
\* creates no other worksheet; a receipt whose date is empty or matches none of
\* the three formats changes nothing at all; and the upload still takes every
\* remaining receipt in turn.
C21_MonthWorksheet ==
    /\ \A i \in 1..Len(hist.steps) :
           LET target == MonthYear(Get(StepReceipt(i), "date"))
               before == hist.steps[i].before
               after == hist.steps[i].after
           IN  /\ DictKeys(after.sheets) \subseteq DictKeys(before.sheets) \cup {target}
               /\ \A t \in DictKeys(after.sheets) :
                      t # target => DataRowsOf(after, t) = DataRowsOf(before, t)
               /\ target = "" => after = before
               /\ target # "" /\ DataRowsOf(after, target) # DataRowsOf(before, target) =>
                      DataRowsOf(after, target) =
                          Append(DataRowsOf(before, target), ReceiptRow(StepReceipt(i)))
    /\ pc = "u_loop" => Len(hist.steps) = idx - 1
    /\ pc = "u_done" /\ hist.auth => Len(hist.steps) = Len(receipts_to_upload)

C21_Witness ==
    /\ pc = "u_done"
    /\ Len(hist.steps) = 2
    /\ Get(StepReceipt(1), "date") = "soon"
    /\ hist.steps[1].fail = "none"
    /\ hist.steps[1].after = hist.steps[1].before
    /\ Get(StepReceipt(2), "date") = "01/15/26"
    /\ DictHas(hist.steps[2].before.sheets, "January 2026")
    /\ DataRowsOf(hist.steps[2].after, "January 2026") =
           Append(DataRowsOf(hist.steps[2].before, "January 2026"),
                  <<"12.5", "01/15/26", "", "Cafe", "Groceries">>)
    /\ DataRowsOf(hist.steps[2].after, "February 2026") =
           DataRowsOf(hist.steps[2].before, "February 2026")

(***************************************************************************)
(* Categories: the canonical vocabulary, the lookup table built from it    *)
(* and normalize_categories.                                               *)
(***************************************************************************)
CATEGORY_ENUM_TO_LABEL ==
    <<[k |-> "FOOD_RESTAURANTS", v |-> "Food & Restaurants"],
      [k |-> "GROCERIES", v |-> "Groceries"],
      [k |-> "TRANSPORTATION", v |-> "Transportation"],
      [k |-> "TRAVEL", v |-> "Travel"],
      [k |-> "LODGING", v |-> "Lodging"],
      [k |-> "UTILITIES", v |-> "Utilities"],
      [k |-> "HOUSING_RENT", v |-> "Housing & Rent"],
      [k |-> "HEALTH_MEDICAL", v |-> "Health & Medical"],
      [k |-> "INSURANCE", v |-> "Insurance"],
      [k |-> "ENTERTAINMENT_RECREATION", v |-> "Entertainment & Recreation"],
      [k |-> "CLOTHING_SHOES", v |-> "Clothing & Shoes"],
      [k |-> "ELECTRONICS_GADGETS", v |-> "Electronics & Gadgets"],
      [k |-> "HOME_GARDEN", v |-> "Home & Garden"],
      [k |-> "OFFICE_SUPPLIES", v |-> "Office & Supplies"],
      [k |-> "EDUCATION", v |-> "Education"],
      [k |-> "GIFTS_DONATIONS", v |-> "Gifts & Donations"],
      [k |-> "SUBSCRIPTIONS_MEMBERSHIPS", v |-> "Subscriptions & Memberships"],
      [k |-> "FEES_SERVICES", v |-> "Fees & Services"],
      [k |-> "TAXES", v |-> "Taxes"],
      [k |-> "CHILDCARE", v |-> "Childcare"],
      [k |-> "PET_CARE", v |-> "Pet Care"],
      [k |-> "PERSONAL_CARE", v |-> "Personal Care"],
      [k |-> "OTHER", v |-> "Other"]>>

CANONICAL_CATEGORIES == DictValues(CATEGORY_ENUM_TO_LABEL)

CATEGORY_ALIASES ==
    <<[k |-> "food/restaurants", v |-> "Food & Restaurants"],
      [k |-> "food and restaurants", v |-> "Food & Restaurants"],
      [k |-> "food & restaurants", v |-> "Food & Restaurants"],
      [k |-> "restaurants", v |-> "Food & Restaurants"],
      [k |-> "clothing", v |-> "Clothing & Shoes"],
      [k |-> "clothes", v |-> "Clothing & Shoes"],
      [k |-> "entertainment", v |-> "Entertainment & Recreation"],
      [k |-> "housing", v |-> "Housing & Rent"],
      [k |-> "rent", v |-> "Housing & Rent"]>>

\* " ".join(value.strip().lower().split()) for the strings of the model: a
\* string that is not listed is its own key
_category_key(value) ==
    CASE value = "FOOD_RESTAURANTS" -> "food_restaurants"
      [] value = "GROCERIES" -> "groceries"
      [] value = "TRANSPORTATION" -> "transportation"
      [] value = "TRAVEL" -> "travel"
      [] value = "LODGING" -> "lodging"
      [] value = "UTILITIES" -> "utilities"
      [] value = "HOUSING_RENT" -> "housing_rent"
      [] value = "HEALTH_MEDICAL" -> "health_medical"
      [] value = "INSURANCE" -> "insurance"
      [] value = "ENTERTAINMENT_RECREATION" -> "entertainment_recreation"
      [] value = "CLOTHING_SHOES" -> "clothing_shoes"
      [] value = "ELECTRONICS_GADGETS" -> "electronics_gadgets"
      [] value = "HOME_GARDEN" -> "home_garden"
      [] value = "OFFICE_SUPPLIES" -> "office_supplies"
      [] value = "EDUCATION" -> "education"
      [] value = "GIFTS_DONATIONS" -> "gifts_donations"
      [] value = "SUBSCRIPTIONS_MEMBERSHIPS" -> "subscriptions_memberships"
      [] value = "FEES_SERVICES" -> "fees_services"
      [] value = "TAXES" -> "taxes"
      [] value = "CHILDCARE" -> "childcare"
      [] value = "PET_CARE" -> "pet_care"
      [] value = "PERSONAL_CARE" -> "personal_care"
      [] value = "OTHER" -> "other"
      [] value = "Food & Restaurants" -> "food & restaurants"
      [] value = "Groceries" -> "groceries"
      [] value = "Transportation" -> "transportation"
      [] value = "Travel" -> "travel"
      [] value = "Lodging" -> "lodging"
      [] value = "Utilities" -> "utilities"
      [] value = "Housing & Rent" -> "housing & rent"
      [] value = "Health & Medical" -> "health & medical"
      [] value = "Insurance" -> "insurance"
      [] value = "Entertainment & Recreation" -> "entertainment & recreation"
      [] value = "Clothing & Shoes" -> "clothing & shoes"
      [] value = "Electronics & Gadgets" -> "electronics & gadgets"
      [] value = "Home & Garden" -> "home & garden"
      [] value = "Office & Supplies" -> "office & supplies"
      [] value = "Education" -> "education"
      [] value = "Gifts & Donations" -> "gifts & donations"
      [] value = "Subscriptions & Memberships" -> "subscriptions & memberships"
      [] value = "Fees & Services" -> "fees & services"
      [] value = "Taxes" -> "taxes"
      [] value = "Childcare" -> "childcare"
      [] value = "Pet Care" -> "pet care"
      [] value = "Personal Care" -> "personal care"
      [] value = "Other" -> "other"
      [] value = " groceries " -> "groceries"
      [] value = "Food  &  Restaurants" -> "food & restaurants"
      [] value = "Food/restaurants" -> "food/restaurants"
      [] value = "Rent" -> "rent"
      [] value = "Misc" -> "misc"
      [] OTHER -> value

\* the assignments _build_category_lookup makes, in its order: for every enum
\* spelling its key and the key of its label, then the key of every alias
LookupItems ==
    [i \in 1..(2 * Len(CATEGORY_ENUM_TO_LABEL)) |->
        LET e == CATEGORY_ENUM_TO_LABEL[(i + 1) \div 2]
        IN  [k |-> _category_key(IF i % 2 = 1 THEN e.k ELSE e.v), v |-> e.v]]
    \o [i \in 1..Len(CATEGORY_ALIASES) |->
           [k |-> _category_key(CATEGORY_ALIASES[i].k), v |-> CATEGORY_ALIASES[i].v]]

\* _build_category_lookup: the dict these assignments leave, a key standing
\* where it was first assigned and holding what was assigned to it last
_build_category_lookup ==
    LET items == LookupItems
        IsFirst(i) == \A n \in 1..(i - 1) : items[n].k # items[i].k
        Last(k) == CHOOSE i \in 1..Len(items) :
                       /\ items[i].k = k
                       /\ \A n \in (i + 1)..Len(items) : items[n].k # k
        firsts == SelectSeq([i \in 1..Len(items) |-> i], IsFirst)
    IN  [n \in 1..Len(firsts) |->
            [k |-> items[firsts[n]].k, v |-> items[Last(items[firsts[n]].k)].v]]

CATEGORY_LOOKUP == _build_category_lookup

\* not value.strip(), for the strings of the model
IsBlankValue(value) == value \in {"", "  "}

\* mutant: a label is appended every time it is met
RECURSIVE NormalizeLoopRepeats(_, _)
NormalizeLoopRepeats(categories, normalized) ==
    IF categories = <<>> THEN normalized
    ELSE LET raw == Head(categories)
             canonical == DictGetOr(CATEGORY_LOOKUP, _category_key(raw), "Other")
         IN  IF raw = None \/ IsBlankValue(raw)
             THEN NormalizeLoopRepeats(Tail(categories), normalized)
             ELSE NormalizeLoopRepeats(Tail(categories), Append(normalized, canonical))

normalize_categories_repeats(categories) ==
    IF categories = <<>> THEN <<>> ELSE NormalizeLoopRepeats(categories, <<>>)

\* the loop of normalize_categories: normalized and seen after the entries
RECURSIVE NormalizeLoop(_, _, _)
NormalizeLoop(categories, normalized, seen) ==
    IF categories = <<>> THEN normalized
    ELSE LET raw == Head(categories)
             canonical == DictGetOr(CATEGORY_LOOKUP, _category_key(raw), "Other")
         IN  IF raw = None \/ IsBlankValue(raw)
             THEN NormalizeLoop(Tail(categories), normalized, seen)
             ELSE IF canonical \notin seen
             THEN NormalizeLoop(Tail(categories), Append(normalized, canonical),
                                seen \cup {canonical})
             ELSE NormalizeLoop(Tail(categories), normalized, seen)

normalize_categories(categories) ==
    IF categories = <<>> THEN <<>> ELSE NormalizeLoop(categories, <<>>, {})

\* receipt["category"] = normalize_categories(receipt.get("category"))
_normalize_receipt(receipt) ==
    [receipt EXCEPT !.category = normalize_categories(receipt.category)]

(***************************************************************************)
(* SpecCategories: a receipt whose category list is any sequence of at     *)
(* most MaxLen raw entries, as extract_receipt builds it and as            *)
(* _load_stored_receipts reads it back.                                    *)
(***************************************************************************)
RawCategories ==
    {None, "", "  ", "GROCERIES", "Groceries", " groceries ", "Food  &  Restaurants",
     "Food/restaurants", "restaurants", "Rent", "Misc", "5"}

InitCategories ==
    /\ \E raw \in SeqsUpTo(RawCategories, MaxLen) :
           results = <<Rcpt("h1", "r1", 1250, "01/15/2026", "Cafe", raw, FALSE, "a.jpg")>>
    /\ pc = "h_start"
    /\ disk = MissingFile
    /\ dir = NoFiles
    /\ args = NoArgs
    /\ state = EmptyState
    /\ to_process = <<>>
    /\ idx = 0
    /\ pending = <<>>
    /\ spreadsheet = NoSpreadsheet
    /\ worksheets = <<>>
    /\ duplicates_found = <<>>
    /\ new_receipts = <<>>
    /\ hist = [HistInit EXCEPT !.raw = results[1].category]

\* extract_receipt: "category": normalize_categories(receipt.category)
HExtractCategories ==
    /\ pc = "h_start"
    /\ pc' = "h_extracted"
    /\ results' = <<[results[1] EXCEPT !.category = normalize_categories(hist.raw)]>>
    /\ UNCHANGED <<disk, dir, args, state, to_process, idx, pending, hist>>
    /\ UNCHANGED sheetvars

\* _load_stored_receipts: _normalize_receipt(r) for every stored receipt
HLoadStored ==
    /\ pc \in {"h_start", "h_extracted"}
    /\ pc' = "h_loaded"
    /\ results' = [i \in 1..Len(results) |-> _normalize_receipt(results[i])]
    /\ UNCHANGED <<disk, dir, args, state, to_process, idx, pending, hist>>
    /\ UNCHANGED sheetvars

NextCategories == HExtractCategories \/ HLoadStored

SpecCategories == InitCategories /\ [][NextCategories]_vars

\* the canonical label an entry of RawCategories stands for: by its enum
\* spelling, its label or an alias, whatever its case and spacing, else Other
ExpectedLabel(raw) ==
    CASE raw \in {"GROCERIES", "Groceries", " groceries "} -> "Groceries"
      [] raw \in {"Food  &  Restaurants", "Food/restaurants", "restaurants"} ->
             "Food & Restaurants"
      [] raw = "Rent" -> "Housing & Rent"
      [] OTHER -> "Other"

\* the entries of the raw list that are neither null nor blank
KeptEntries ==
    LET IsEntry(raw) == raw # None /\ raw \notin {"", "  "}
    IN  SelectSeq(hist.raw, IsEntry)

\* the place in the raw list where a label is first met
FirstSeen(label) ==
    CHOOSE k \in 1..Len(KeptEntries) :
        /\ ExpectedLabel(KeptEntries[k]) = label
        /\ \A n \in 1..(k - 1) : ExpectedLabel(KeptEntries[n]) # label

\* C22: the category list of a receipt built by extraction or read back from
\* the store holds only labels of the canonical vocabulary, none twice, in the
\* order in which they are first met in the raw list: exactly the labels the
\* non-null, non-blank raw entries stand for (Other for an unknown entry), and
\* nothing for an empty raw list.
C22_CanonicalCategories ==
    pc \in {"h_extracted", "h_loaded"} =>
        LET out == results[1].category
        IN  /\ \A i \in 1..Len(out) :
                   \E j \in 1..Len(CANONICAL_CATEGORIES) : out[i] = CANONICAL_CATEGORIES[j]
            /\ \A i, j \in 1..Len(out) : i # j => out[i] # out[j]
            /\ {out[i] : i \in 1..Len(out)} =
                   {ExpectedLabel(KeptEntries[k]) : k \in 1..Len(KeptEntries)}
            /\ \A i, j \in 1..Len(out) : i < j => FirstSeen(out[i]) < FirstSeen(out[j])
            /\ hist.raw = <<>> => out = <<>>

C22_Witness ==
    /\ pc = "h_extracted"
    /\ hist.raw = <<"Rent", None, "restaurants">>
    /\ results[1].category = <<"Housing & Rent", "Food & Restaurants">>

(***************************************************************************)
(* SpecTsv: _build_tsv_lines applied to every batch of at most MaxLen      *)
(* receipts of TsvReceipts.                                                *)
(***************************************************************************)

\* f"{amount:.2f}" for an amount held as a whole number of cents
Format2f(c) ==
    ToString(c \div 100) \o "." \o ToString((c % 100) \div 10) \o ToString(c % 10)

\* mutant: the amount is written as str(amount)
_build_tsv_lines_str(receipts) ==
    <<"Amount\tDate\t\tVendor\tCategory">>
    \o [i \in 1..Len(receipts) |->
           AmountStr(receipts[i].amount) \o "\t" \o Str(Get(receipts[i], "date"))
           \o "\t\t" \o Str(Get(receipts[i], "vendor")) \o "\t"
           \o (IF receipts[i].category # <<>> THEN Join(receipts[i].category, ", ")
               ELSE "")]

\* _build_tsv_lines: the header, then one line per receipt
_build_tsv_lines(receipts) ==
    <<"Amount\tDate\t\tVendor\tCategory">>
    \o [i \in 1..Len(receipts) |->
           Format2f(receipts[i].amount) \o "\t" \o Str(Get(receipts[i], "date"))
           \o "\t\t" \o Str(Get(receipts[i], "vendor")) \o "\t"
           \o (IF receipts[i].category # <<>> THEN Join(receipts[i].category, ", ")
               ELSE "")]

\* receipts with whole, fractional and sub-dime amounts, with no, one and two
\* categories, and one with an empty date and vendor
TsvReceipts ==
    {Rcpt("h1", "r1", a, "01/15/2026", "Taco Cabana", c, FALSE, "a.jpg") :
        a \in {1250, 300, 5},
        c \in {<<>>, <<"Groceries">>, <<"Electronics & Gadgets", "Other">>}}
    \cup {Rcpt("h2", "r2", 9999, "", "", <<>>, FALSE, "b.jpg")}

InitTsv ==
    /\ results \in SeqsUpTo(TsvReceipts, MaxLen)
    /\ pc = "h_start"
    /\ disk = MissingFile
    /\ dir = NoFiles
    /\ args = NoArgs
    /\ state = EmptyState
    /\ to_process = <<>>
    /\ idx = 0
    /\ pending = <<>>
    /\ spreadsheet = NoSpreadsheet
    /\ worksheets = <<>>
    /\ duplicates_found = <<>>
    /\ new_receipts = <<>>
    /\ hist = HistInit

\* _print_tsv / write_tsv: the lines _build_tsv_lines returns
HBuildTsv ==
    /\ pc = "h_start"
    /\ pc' = "h_done"
    /\ hist' = [hist EXCEPT !.lines = _build_tsv_lines(results)]
    /\ UNCHANGED <<disk, dir, args, state, to_process, idx, results, pending>>
    /\ UNCHANGED sheetvars

NextTsv == HBuildTsv

SpecTsv == InitTsv /\ [][NextTsv]_vars

\* the amounts of TsvReceipts with exactly two fraction digits
TwoDigits(c) ==
    CASE c = 1250 -> "12.50"
      [] c = 300 -> "3.00"
      [] c = 5 -> "0.05"
      [] c = 9999 -> "99.99"

\* C23: the lines are the fixed header followed by one line per receipt, in
\* order, each the amount with exactly two fraction digits, the date, an empty
\* field, the vendor and the categories joined by comma-space (empty when
\* there are none), separated by tabs.
C23_TsvLines ==
    pc = "h_done" =>
        /\ Len(hist.lines) = Len(results) + 1
        /\ hist.lines[1] = "Amount\tDate\t\tVendor\tCategory"
        /\ \A i \in 1..Len(results) :
               hist.lines[i + 1] =
                   TwoDigits(results[i].amount) \o "\t" \o results[i].date \o "\t"
                   \o "" \o "\t" \o results[i].vendor \o "\t"
                   \o (CASE Len(results[i].category) = 0 -> ""
                         [] Len(results[i].category) = 1 -> results[i].category[1]
                         [] Len(results[i].category) = 2 ->
                                results[i].category[1] \o ", " \o results[i].category[2])

C23_Witness ==
    /\ pc = "h_done"
    /\ hist.lines = <<"Amount\tDate\t\tVendor\tCategory",
                      "12.50\t01/15/2026\t\tTaco Cabana\tGroceries",
                      "0.05\t01/15/2026\t\tTaco Cabana\tElectronics & Gadgets, Other",
                      "99.99\t\t\t\t">>

\* every files entry of the state has its receipt: under the key that is the
\* entry's fingerprint, with that fingerprint as source_hash
FilesHaveReceipts(st) ==
    \A i \in 1..Len(st.files) :
        /\ DictHas(st.receipts, st.files[i].v)
        /\ DictGet(st.receipts, st.files[i].v).source_hash = st.files[i].v

\* C24: when the runs started without a state file, every state the state file
\* holds (every content of it that loads, at any moment of any run) has, for
\* each files entry filename -> h, a receipt under key h with source_hash h.
C24_FilesHaveReceipts ==
    hist.disk0 = MissingFile /\ ~load_state(disk).raised =>
        FilesHaveReceipts(load_state(disk).state)

C24_Witness ==
    /\ hist.disk0 = MissingFile
    /\ pc = "plan"
    /\ ~load_state(disk).raised
    /\ DictHas(load_state(disk).state.files, "a.jpg")
    /\ DictGet(load_state(disk).state.files, "a.jpg") = "h2"
    /\ DictHas(load_state(disk).state.files, "B.PNG")
    /\ DictHas(load_state(disk).state.receipts, "h1")
    /\ DictHas(load_state(disk).state.receipts, "h2")
    /\ dir["a.jpg"].hash = "h1"

\* the state file is opened for writing at most once in a run, and only after
\* every planned file has been attempted
WrittenOnceAtEnd ==
    /\ hist.opens <= 1
    /\ hist.opens > 0 => idx > Len(to_process)
    /\ pc = "extract" => disk = hist.loaded_from

\* C25: in a processing run the state file is read once, at the start of the
\* run, and written once, at the end, after every planned file has been
\* attempted; it is never written while the batch is being processed.
C25_ReadOnceWrittenOnce ==
    /\ hist.reads <= 1
    /\ WrittenOnceAtEnd

(***************************************************************************)
(* SpecMain: the modes of main().  A processing run in which an extraction *)
(* may mark its receipt as excluded, the viewing modes (--table, --tsv,    *)
(* --tsv-all), --upload-to-sheets and --fix-sheets, started one after      *)
(* another on the same state file.  The spreadsheet an upload or a repair  *)
(* finds is any of a few, whatever earlier runs did.                       *)
(***************************************************************************)

\* the record of a file whose extraction sets excludeFromTable
ExtractedExcluded(filename, file_h) ==
    [Extracted(filename, file_h) EXCEPT !.excludeFromTable = TRUE]

\* one iteration of the extraction loop in which extract_receipt returns a
\* receipt that the exclusion criteria exclude
ExtractOkExcluded ==
    /\ pc = "extract"
    /\ idx <= Len(to_process)
    /\ LET filename == to_process[idx].filename
           file_h == to_process[idx].hash
       IN  /\ results' = Append(results, ExtractedExcluded(filename, file_h))
           /\ state' = [state EXCEPT !.files = DictSet(state.files, filename, file_h)]
           /\ hist' = [hist EXCEPT !.ok_files = hist.ok_files \cup {filename}]
    /\ idx' = idx + 1
    /\ UNCHANGED <<disk, dir, pc, args, to_process, pending>>
    /\ UNCHANGED sheetvars

\* deduped_results = dedupe_receipts(results), once the extraction loop is over
deduped_results == dedupe_receipts(results)

\* write_json(deduped_results, output_json): the receipts of the JSON output
output_json == deduped_results

\* table_receipts, excluded_receipts = _filter_excluded_receipts(deduped_results,
\* print_warnings=True)
table_receipts == _filter_excluded_receipts(deduped_results, TRUE).included

\* write_tsv(table_receipts, output_tsv): the lines of the TSV output
output_tsv == _build_tsv_lines(table_receipts)

\* the lines print_table prints: nothing for no receipts, else the header, the
\* separator and one line per receipt in order (the padding of the columns
\* with spaces is left out)
print_table(receipts) ==
    IF receipts = <<>> THEN <<>>
    ELSE <<Join(HEADER, "  "), "-">>
         \o [i \in 1..Len(receipts) |->
                Join(<<Format2f(receipts[i].amount), receipts[i].date, "",
                       receipts[i].vendor,
                       IF receipts[i].category # <<>>
                       THEN Join(receipts[i].category, ", ") ELSE "">>, "  ")]

\* _load_receipts_from_output: the receipts of the receipts*.json files of the
\* output directory, each normalized
_load_receipts_from_output(output_files) ==
    [i \in 1..Len(output_files) |-> _normalize_receipt(output_files[i])]

\* _load_stored_receipts: the normalized receipts of the state, then those of
\* the output directory, deduplicated
_load_stored_receipts(st, output_files) ==
    dedupe_receipts(
        [i \in 1..Len(st.receipts) |-> _normalize_receipt(st.receipts[i].v)]
        \o _load_receipts_from_output(output_files))

\* datetime.strptime(month, "%Y-%m") on the --month values of the model
MonthArg(month) ==
    CASE month = "2026-01" -> [ok |-> TRUE, year |-> 2026, month |-> 1]
      [] month = "2026-02" -> [ok |-> TRUE, year |-> 2026, month |-> 2]
      [] OTHER -> NoDate

\* str.lower() on the vendor strings of the model
LowerStr(s) ==
    CASE s = "Cafe" -> "cafe"
      [] s = "Caf" -> "caf"
      [] s = "Target" -> "target"
      [] s = "Old" -> "old"
      [] s = "Older" -> "older"
      [] OTHER -> s

\* sub in s, on the lowered strings of the model
IsSubstring(sub, s) ==
    \/ sub = s
    \/ sub = ""
    \/ sub = "caf" /\ s = "cafe"
    \/ sub = "old" /\ s = "older"

\* the test of one receipt in the loop of _filter_receipts
PassesFilters(receipt, target_month, vendor, min_amount, max_amount, category) ==
    /\ Truthy(vendor) =>
           IsSubstring(LowerStr(vendor), LowerStr(GetOr(receipt, "vendor", "")))
    /\ Truthy(category) =>
           \E i \in 1..Len(receipt.category) : receipt.category[i] = category
    /\ min_amount # NoneAmount =>
           receipt.amount # NoneAmount /\ receipt.amount >= min_amount
    /\ max_amount # NoneAmount =>
           receipt.amount # NoneAmount /\ receipt.amount <= max_amount
    /\ target_month.ok =>
           LET parsed_date == _parse_date(GetOr(receipt, "date", ""))
           IN  /\ parsed_date.ok
               /\ parsed_date.year = target_month.year
               /\ parsed_date.month = target_month.month

\* _filter_receipts: an invalid --month yields no receipt; otherwise the
\* receipts that pass every given filter, in order
_filter_receipts(receipts, month, vendor, min_amount, max_amount, category) ==
    IF Truthy(month) /\ ~MonthArg(month).ok
    THEN <<>>
    ELSE SelectSeq(receipts,
             LAMBDA r : PassesFilters(r, IF Truthy(month) THEN MonthArg(month) ELSE NoDate,
                                      vendor, min_amount, max_amount, category))

\* the arguments of the viewing and upload modes: each flag alone, --tsv with
\* filters (one of them an invalid month), and several flags together
NoViewArgs ==
    [table |-> FALSE, tsv |-> FALSE, tsv_all |-> FALSE, upload_to_sheets |-> FALSE,
     month |-> None, vendor |-> None, min_amount |-> NoneAmount,
     max_amount |-> NoneAmount, category |-> None]

ViewArgs ==
    {[NoViewArgs EXCEPT !.table = TRUE],
     [NoViewArgs EXCEPT !.tsv_all = TRUE],
     [NoViewArgs EXCEPT !.tsv = TRUE],
     [NoViewArgs EXCEPT !.tsv = TRUE, !.vendor = "Caf", !.min_amount = 1000],
     [NoViewArgs EXCEPT !.tsv = TRUE, !.month = "2026-01", !.category = "Groceries",
                        !.max_amount = 2000],
     [NoViewArgs EXCEPT !.tsv = TRUE, !.month = "January"],
     [NoViewArgs EXCEPT !.upload_to_sheets = TRUE],
     [NoViewArgs EXCEPT !.table = TRUE, !.tsv_all = TRUE, !.upload_to_sheets = TRUE]}

\* the receipts held by the JSON files of the output directory: none, an
\* excluded receipt of other content, an excluded copy of a stored receipt
OutputFiles ==
    {<<>>,
     <<Rcpt("h3", "r3", 700, "02/03/2026", "Target", <<"Groceries">>, TRUE, "e.jpg")>>,
     <<Rcpt("h1", "r-h1", 1250, "01/15/2026", "Cafe", <<"Groceries">>, TRUE, "a.jpg")>>}

\* the spreadsheets an upload or a repair of the model finds
MainSheets ==
    {[exists |-> TRUE, sheets |-> <<>>],
     [exists |-> TRUE, sheets |-> <<[k |-> "January 2026", v |-> JanuaryRows]>>]}

\* a state file written by earlier runs: an excluded receipt of a.jpg and an
\* included one of a file that is gone
MainStore ==
    FileWith(json_dump(
        [files |-> <<[k |-> "a.jpg", v |-> "h1"], [k |-> "old.jpg", v |-> "h2"]>>,
         receipts |->
             <<[k |-> "h1", v |-> ExtractedExcluded("a.jpg", "h1")],
               [k |-> "h2", v |-> Rcpt("h2", "r-h2", 300, "02/03/2026", "Target",
                                       <<"Groceries">>, FALSE, "old.jpg")]>>]))

InitMain ==
    /\ disk \in {MissingFile, MainStore}
    /\ dir \in {[NoFiles EXCEPT !["a.jpg"] = File("h1")],
                [NoFiles EXCEPT !["a.jpg"] = File("h1"), !["B.PNG"] = File("h1")],
                [NoFiles EXCEPT !["a.jpg"] = File("h1"), !["B.PNG"] = File("h2")]}
    /\ pc = "idle"
    /\ args = NoArgs
    /\ state = EmptyState
    /\ to_process = <<>>
    /\ idx = 0
    /\ results = <<>>
    /\ pending = <<>>
    /\ spreadsheet = NoSpreadsheet
    /\ worksheets = <<>>
    /\ duplicates_found = <<>>
    /\ new_receipts = <<>>
    /\ hist = [HistInit EXCEPT
                   !.disk0 = disk,
                   !.committed = disk,
                   !.seen = DictKeys(StoredFiles(disk)),
                   !.lastok = [f \in FileNames |->
                                  DictGetOr(StoredFiles(disk), f, NoHash)]]

\* main() with --table, --tsv, --tsv-all or --upload-to-sheets: the stored
\* receipts are loaded and filtered, the TSV and the table are printed, and
\* with --upload-to-sheets upload_to_sheets(receipts) is entered; a state file
\* that does not load, or no stored receipt, ends the process
MainView ==
    /\ pc = "idle"
    /\ \E a \in ViewArgs, output_files \in OutputFiles :
           LET l == load_state(disk)
               receipts == _load_stored_receipts(l.state, output_files)
               shown == _filter_excluded_receipts(receipts, FALSE).included
               filtered == IF a.tsv_all THEN shown
                           ELSE _filter_receipts(shown, a.month, a.vendor,
                                                 a.min_amount, a.max_amount, a.category)
               tsv_of == IF a.tsv \/ a.tsv_all THEN dedupe_receipts(filtered) ELSE <<>>
               table_of == IF a.table THEN dedupe_receipts(shown) ELSE <<>>
           IN  IF l.raised \/ receipts = <<>>
               THEN UNCHANGED <<pc, results, spreadsheet, hist>>
               ELSE /\ IF a.upload_to_sheets
                       THEN /\ pc' = "u_start"
                            /\ results' = receipts
                            /\ spreadsheet' \in MainSheets
                       ELSE /\ pc' = "viewed"
                            /\ UNCHANGED <<results, spreadsheet>>
                    /\ hist' = [hist EXCEPT
                                   !.sheet0 = spreadsheet',
                                   !.view =
                                       [ran |-> TRUE,
                                        tsv_of |-> tsv_of,
                                        tsv |-> IF a.tsv \/ a.tsv_all
                                                THEN _build_tsv_lines(tsv_of) ELSE <<>>,
                                        table_of |-> table_of,
                                        table |-> print_table(table_of)]]
    /\ UNCHANGED <<disk, dir, args, state, to_process, idx, pending>>
    /\ UNCHANGED <<worksheets, duplicates_found, new_receipts>>

\* main() with --fix-sheets: fix_google_sheets() is entered
MainFixSheets ==
    /\ pc = "idle"
    /\ pc' = "r_start"
    /\ spreadsheet' \in
           MainSheets \cup
           {[exists |-> TRUE,
             sheets |-> <<[k |-> "January 2026",
                           v |-> <<<<"", "", "3", "02/03/2026", "", "Target",
                                     "Groceries">>>>]>>]}
    /\ hist' = [hist EXCEPT !.sheet0 = spreadsheet']
    /\ UNCHANGED <<disk, dir, args, state, to_process, idx, results, pending>>
    /\ UNCHANGED <<worksheets, duplicates_found, new_receipts>>

\* sys.exit(0) at the end of a viewing, upload or repair mode
MainExit ==
    /\ pc \in {"viewed", "u_done", "r_done", "r_failed"}
    /\ pc' = "idle"
    /\ results' = <<>>
    /\ idx' = 0
    /\ spreadsheet' = NoSpreadsheet
    /\ worksheets' = <<>>
    /\ hist' = [hist EXCEPT !.view = NoView, !.steps = <<>>, !.writes = <<>>,
                            !.auth = TRUE, !.sheet0 = NoSpreadsheet]
    /\ UNCHANGED <<disk, dir, args, state, to_process, pending>>
    /\ UNCHANGED <<duplicates_found, new_receipts>>

NextMain ==
    \/ Start \/ Plan \/ NothingToProcess \/ LoadState
    \/ ExtractOk \/ ExtractOkExcluded \/ ExtractFail \/ NoResults \/ MergeResults
    \/ SaveOpen \/ SaveWrite \/ SaveClose \/ Report
    \/ MainView \/ MainFixSheets \/ MainExit
    \/ UploadAuthFail \/ UploadBegin \/ UploadReceipt \/ UploadDone
    \/ RepairCannotOpen \/ RepairBegin \/ RepairWorksheet \/ RepairReturn

SpecMain == InitMain /\ [][NextMain]_vars

\* the receipt's excludeFromTable is truthy
IsExcluded(receipt) == GetField(receipt, "excludeFromTable", FALSE)

InSeq(r, seq) == \E i \in 1..Len(seq) : seq[i] = r

NoneExcluded(seq) == \A i \in 1..Len(seq) : ~IsExcluded(seq[i])

\* results[i] is the receipt of its key in the run: no later extraction of the
\* run has the same key
LastOfKey(i) ==
    \A j \in (i + 1)..Len(results) : _receipt_key(results[j]) # _receipt_key(results[i])

\* the rows the upload has added to the worksheet so far
AddedRows(title) ==
    SubSeq(DataRowsOf(spreadsheet, title),
           Len(DataRowsOf(hist.sheet0, title)) + 1,
           Len(DataRowsOf(spreadsheet, title)))

ViewedAndUploaded ==
    /\ pc = "u_done"
    /\ hist.view.ran
    /\ hist.view.tsv # <<>>
    /\ hist.view.table # <<>>
    /\ \E i \in 1..Len(results) : IsExcluded(results[i])
    /\ \E t \in WorksheetTitles : AddedRows(t) # <<>>

ChangedBackIsPlanned ==
    /\ pc = "planned"
    /\ ~args.duplicates
    /\ hist.lastok["a.jpg"] = "h2"
    /\ "a.jpg" \in PlannedNames
    /\ DictHas(load_state(disk).state.receipts, "h1")

(***************************************************************************)
(* SpecReupload: upload_to_sheets(R) called twice in a row with the same   *)
(* batch R of at most MaxUpload receipts, among them receipts with amount  *)
(* 0 and with an empty vendor, each call with any of its calls failing.    *)
(***************************************************************************)
ReuploadReceipts ==
    {Rcpt(Absent, "r1", 1250, "01/15/2026", "Cafe", <<"Groceries">>, FALSE, Absent),
     Rcpt(Absent, "r2", 1250, "01/15/2026", "", <<"Groceries">>, FALSE, Absent),
     Rcpt(Absent, "r3", 0, "01/15/2026", "Cafe", <<>>, FALSE, Absent),
     Rcpt(Absent, "r4", 1781, "02/03/2026", "Target", <<"Groceries">>, FALSE, Absent)}

InitReupload ==
    /\ results \in SeqsUpTo(ReuploadReceipts, MaxUpload)
    /\ spreadsheet \in
           {[exists |-> TRUE, sheets |-> <<>>],
            [exists |-> TRUE, sheets |-> <<[k |-> "January 2026", v |-> JanuaryRows]>>]}
    /\ pc = "u_start"
    /\ disk = MissingFile
    /\ dir = NoFiles
    /\ args = NoArgs
    /\ state = EmptyState
    /\ to_process = <<>>
    /\ idx = 0
    /\ pending = <<>>
    /\ worksheets = <<>>
    /\ duplicates_found = <<>>
    /\ new_receipts = <<>>
    /\ hist = [HistInit EXCEPT !.sheet0 = spreadsheet]

\* upload_to_sheets is called again with the same receipts
UploadAgain ==
    /\ pc = "u_done"
    /\ hist.round = 1
    /\ pc' = "u_start"
    /\ worksheets' = <<>>
    /\ idx' = 0
    /\ hist' = [hist EXCEPT
                   !.round = 2,
                   !.first = [auth |-> hist.auth, steps |-> hist.steps,
                              sheet0 |-> hist.sheet0],
                   !.auth = TRUE,
                   !.steps = <<>>,
                   !.sheet0 = spreadsheet]
    /\ UNCHANGED <<disk, dir, args, state, to_process, results, pending>>
    /\ UNCHANGED <<spreadsheet, duplicates_found, new_receipts>>

NextReupload ==
    UploadAuthFail \/ UploadBegin \/ UploadReceipt \/ UploadDone \/ UploadAgain

SpecReupload == InitReupload /\ [][NextReupload]_vars

\* no call of the upload failed
NoExternalError(auth, steps) ==
    auth /\ \A i \in 1..Len(steps) : steps[i].fail = "none"

\* the spreadsheet gives back the cells of the receipt's row as the values
\* the receipt holds: the record read back has the receipt's key
ReturnedUnchanged(receipt) ==
    LET row == ReceiptRow(receipt)
    IN  <<NumericisedStr(row[2]), NumericisedStr(row[1]), NumericisedStr(row[4])>>
            = receipt_key(receipt)

\* C28: when upload_to_sheets(R) has completed without external errors and the
\* spreadsheet returns the cells of every receipt of R unchanged, a second
\* upload_to_sheets(R) that meets no external error appends no row.
C28_UploadIdempotent ==
    /\ pc = "u_done"
    /\ hist.round = 2
    /\ NoExternalError(hist.first.auth, hist.first.steps)
    /\ NoExternalError(hist.auth, hist.steps)
    /\ \A i \in 1..Len(results) : ReturnedUnchanged(results[i])
    => spreadsheet = hist.sheet0

\* the same, for batches in which every receipt has a truthy amount and vendor
IdempotentWhenTruthy ==
    /\ pc = "u_done"
    /\ hist.round = 2
    /\ NoExternalError(hist.first.auth, hist.first.steps)
    /\ NoExternalError(hist.auth, hist.steps)
    /\ \A i \in 1..Len(results) :
           /\ ReturnedUnchanged(results[i])
           /\ results[i].amount # 0
           /\ Truthy(results[i].vendor)
    => spreadsheet = hist.sheet0

\* C29: the state file changes only in the save of a processing run in which
\* at least one extraction succeeded; every step of a viewing, upload or repair
\* mode, of a run with nothing to process and of a run whose extractions all
\* failed leaves it as it is.
C29_StateFileFrame ==
    [][disk' # disk =>
           /\ pc \in {"save_open", "save_write"}
           /\ hist.ok_files # {}
           /\ results # <<>>]_vars

\* --table --tsv-all --upload-to-sheets has printed and uploaded from a state
\* file that a run had written, and the file is as that run left it
C29_Witness ==
    /\ pc = "u_done"
    /\ hist.view.table # <<>>
    /\ \E t \in WorksheetTitles : AddedRows(t) # <<>>
    /\ disk = hist.committed
    /\ disk # hist.disk0

\* every extraction of a run has failed
AllExtractionsFailed ==
    /\ pc = "extract"
    /\ idx > Len(to_process)
    /\ Len(to_process) = 2
    /\ results = <<>>
    /\ disk = hist.committed

\* a repair has rewritten a worksheet
RepairRan ==
    /\ pc = "r_done"
    /\ hist.writes # <<>>
    /\ disk = hist.committed

(***************************************************************************)
(* SpecApp: renders of the web app.  args holds the environment the app    *)
(* was started with and the session (api_key_token, api_provider); a       *)
(* render loads the cookie, shows the API key section, decides whether     *)
(* Google Sheets is available, and on submit processes the uploaded files, *)
(* looks for duplicates and uploads.                                       *)
(***************************************************************************)

\* os.environ.get("ENABLE_GOOGLE_SHEETS", "true").lower() == "true"
GOOGLE_SHEETS_ENABLED(env) ==
    LET value == IF env = Absent THEN "true" ELSE env
        lower == CASE value = "True" -> "true"
                   [] value = "FALSE" -> "false"
                   [] OTHER -> value
    IN  lower = "true"

\* the API keys of the model: the owner's two keys, a visitor's key
ApiKeys == {"sk-owner", "sk-ant-owner", "sk-visitor"}

\* encrypt_api_key: an opaque token for the key
encrypt_api_key(api_key) == "token:" \o api_key

\* the tokens of the model: none, the tokens of the keys and of the empty key,
\* and a token that Fernet rejects
Tokens == {""} \cup {encrypt_api_key(k) : k \in ApiKeys \cup {""}} \cup {"gAAAA-invalid"}

\* decrypt_api_key: None for an empty token and for one that cannot be
\* decrypted, else the key the token was made of
decrypt_api_key(token) ==
    IF token = "" THEN None
    ELSE IF \E k \in ApiKeys \cup {""} : token = encrypt_api_key(k)
    THEN CHOOSE k \in ApiKeys \cup {""} : token = encrypt_api_key(k)
    ELSE None

\* mutant: the key is compared with the owner keys of both providers
is_owner_api_key_any(a) ==
    LET api_key == decrypt_api_key(a.api_key_token)
    IN  IF api_key = None \/ api_key = "" THEN FALSE
        ELSE \/ a.OWNER_OPENAI_API_KEY # "" /\ api_key = a.OWNER_OPENAI_API_KEY
             \/ a.OWNER_ANTHROPIC_API_KEY # "" /\ api_key = a.OWNER_ANTHROPIC_API_KEY

\* is_owner_api_key, on the environment and session a
is_owner_api_key(a) ==
    LET api_key == decrypt_api_key(a.api_key_token)
    IN  IF api_key = None \/ api_key = "" THEN FALSE
        ELSE IF a.api_provider = "OpenAI"
        THEN a.OWNER_OPENAI_API_KEY # "" /\ api_key = a.OWNER_OPENAI_API_KEY
        ELSE a.OWNER_ANTHROPIC_API_KEY # "" /\ api_key = a.OWNER_ANTHROPIC_API_KEY

\* the valid receipts a submit yields
AppBatches ==
    {<<>>,
     <<Rcpt("h1", "r1", 1250, "01/15/2026", "Cafe", <<"Groceries">>, FALSE, "a.jpg")>>,
     <<Rcpt("h1", "r1", 1250, "01/15/2026", "Cafe", <<"Groceries">>, FALSE, "a.jpg"),
       Rcpt("h2", "r2", 1781, "02/03/2026", "Target", <<"Groceries">>, FALSE, "b.jpg")>>}

InitApp ==
    /\ args \in [ENABLE_GOOGLE_SHEETS : {Absent, "true", "True", "false", "1"},
                 OWNER_OPENAI_API_KEY : {"", "sk-owner"},
                 OWNER_ANTHROPIC_API_KEY : {"", "sk-ant-owner"},
                 api_key_token : {"", "gAAAA-invalid"},
                 api_provider : {"OpenAI"}]
    /\ spreadsheet \in MainSheets
    /\ pc = "a_idle"
    /\ results = <<>>
    /\ disk = MissingFile
    /\ dir = NoFiles
    /\ state = EmptyState
    /\ to_process = <<>>
    /\ idx = 0
    /\ pending = <<>>
    /\ worksheets = <<>>
    /\ duplicates_found = <<>>
    /\ new_receipts = <<>>
    /\ hist = [HistInit EXCEPT !.sheet0 = spreadsheet]

\* main_app up to sheets_available: a decryptable token of the cookie is taken
\* when the session has none, the provider is the one selected, "Change API
\* key" clears the token and reruns, a key typed in is encrypted into the
\* session, and Google Sheets is available when it is enabled, the key is the
\* owner's and the Sheets setup check succeeds
AppGate ==
    /\ pc = "a_idle"
    /\ \E stored \in Tokens, provider \in {"OpenAI", "Anthropic"}, change \in BOOLEAN,
          api_key \in ApiKeys \cup {""}, sheets_ok \in BOOLEAN :
           LET loaded == IF args.api_key_token = "" /\ stored # ""
                            /\ decrypt_api_key(stored) # None
                         THEN stored ELSE args.api_key_token
               has_token == loaded # ""
               token == IF ~has_token /\ api_key # ""
                        THEN encrypt_api_key(api_key) ELSE loaded
               session == [args EXCEPT !.api_key_token = token, !.api_provider = provider]
           IN  IF has_token /\ change
               THEN /\ args' = [args EXCEPT !.api_key_token = "", !.api_provider = provider]
                    /\ UNCHANGED <<pc, hist>>
               ELSE /\ args' = session
                    /\ pc' = "a_gated"
                    /\ hist' = [hist EXCEPT !.app =
                                    [sheets_available |->
                                         /\ GOOGLE_SHEETS_ENABLED(args.ENABLE_GOOGLE_SHEETS)
                                         /\ is_owner_api_key(session)
                                         /\ sheets_ok,
                                     lookups |-> 0]]
    /\ UNCHANGED <<disk, dir, state, to_process, idx, results, pending>>
    /\ UNCHANGED sheetvars

\* render_submit_section and process_and_display_results up to the valid
\* receipts: nothing happens without uploaded files, without a token, without
\* the button pressed or without a valid receipt
AppSubmit ==
    /\ pc = "a_gated"
    /\ \E files \in BOOLEAN, pressed \in BOOLEAN, valid_receipts \in AppBatches :
           IF ~files \/ args.api_key_token = "" \/ ~pressed \/ valid_receipts = <<>>
           THEN pc' = "a_done" /\ UNCHANGED results
           ELSE pc' = "a_lookup" /\ results' = valid_receipts
    /\ UNCHANGED <<disk, dir, args, state, to_process, idx, pending, hist>>
    /\ UNCHANGED sheetvars

\* if sheets_available: duplicates = check_for_duplicates(valid_receipts)
AppLookup ==
    /\ pc = "a_lookup"
    /\ pc' = "a_offer"
    /\ IF hist.app.sheets_available
       THEN \E auth \in BOOLEAN, open \in {"ok", "error"},
               unreadable \in SUBSET DictKeys(spreadsheet.sheets) :
                /\ duplicates_found' =
                       check_for_duplicates(results, spreadsheet, auth, open,
                                            unreadable).value
                /\ hist' = [hist EXCEPT !.app.lookups = @ + 1]
       ELSE UNCHANGED <<duplicates_found, hist>>
    /\ UNCHANGED <<disk, dir, args, state, to_process, idx, results, pending>>
    /\ UNCHANGED <<spreadsheet, worksheets, new_receipts>>

\* if sheets_available: the receipts that are no duplicates are handed to
\* upload_to_google_sheets
AppOffer ==
    /\ pc = "a_offer"
    /\ IF hist.app.sheets_available
       THEN /\ new_receipts' = offered_receipts(results, duplicates_found)
            /\ IF new_receipts' # <<>>
               THEN pc' = "u_start" /\ results' = new_receipts'
               ELSE pc' = "a_done" /\ UNCHANGED results
       ELSE pc' = "a_done" /\ UNCHANGED <<results, new_receipts>>
    /\ UNCHANGED <<disk, dir, args, state, to_process, idx, pending, hist>>
    /\ UNCHANGED <<spreadsheet, worksheets, duplicates_found>>

\* the render is over; the next one finds any of the spreadsheets
AppRerun ==
    /\ pc \in {"a_done", "u_done"}
    /\ pc' = "a_idle"
    /\ results' = <<>>
    /\ idx' = 0
    /\ worksheets' = <<>>
    /\ new_receipts' = <<>>
    /\ duplicates_found' = <<>>
    /\ spreadsheet' \in MainSheets
    /\ hist' = [hist EXCEPT !.app = NoApp, !.steps = <<>>, !.auth = TRUE,
                            !.sheet0 = spreadsheet']
    /\ UNCHANGED <<disk, dir, args, state, to_process, pending>>

NextApp ==
    \/ AppGate \/ AppSubmit \/ AppLookup \/ AppOffer \/ AppRerun
    \/ UploadAuthFail \/ UploadBegin \/ UploadReceipt \/ UploadDone

SpecApp == InitApp /\ [][NextApp]_vars

\* the owner key the environment holds for the session's provider
OwnerKey ==
    IF args.api_provider = "OpenAI" THEN args.OWNER_OPENAI_API_KEY
    ELSE args.OWNER_ANTHROPIC_API_KEY

\* Google Sheets is enabled and the session's key is the owner's
OwnerSession ==
    /\ GOOGLE_SHEETS_ENABLED(args.ENABLE_GOOGLE_SHEETS)
    /\ OwnerKey # ""
    /\ decrypt_api_key(args.api_key_token) = OwnerKey

\* C30: in a render of the web app a duplicate lookup or an upload to Google
\* Sheets takes place, or the spreadsheet is changed, only if Google Sheets is
\* enabled and the key decrypted from the session's token is the non-empty
\* owner key of the selected provider; with no token, an undecryptable token
\* or an unset owner key the upload is never reached.
C30_OwnerOnlySheets ==
    /\ hist.app.lookups > 0 => OwnerSession
    /\ pc \in {"u_start", "u_loop", "u_done"} => OwnerSession
    /\ spreadsheet # hist.sheet0 => OwnerSession
    /\ \/ args.api_key_token = ""
       \/ decrypt_api_key(args.api_key_token) = None
       \/ OwnerKey = ""
       => /\ pc \notin {"u_start", "u_loop", "u_done"}
          /\ hist.app.lookups = 0

\* the owner's render has looked for duplicates and appended a row
C30_Witness ==
    /\ pc = "u_done"
    /\ hist.app.lookups = 1
    /\ spreadsheet # hist.sheet0
    /\ args.api_provider = "Anthropic"
    /\ args.OWNER_OPENAI_API_KEY = "sk-owner"

\* a visitor has submitted receipts and the render went past the lookup
VisitorSubmitted ==
    /\ pc = "a_done"
    /\ results # <<>>
    /\ decrypt_api_key(args.api_key_token) = "sk-visitor"
    /\ GOOGLE_SHEETS_ENABLED(args.ENABLE_GOOGLE_SHEETS)
    /\ hist.app.lookups = 0

====
